---- MODULE Spec2Model ----
(***************************************************************************)
(* Brand-voice content generation and validation pipeline of               *)
(* docling-service: the services.brand_voice batch generator with its      *)
(* retry loop, the /generate-brand-voice endpoint loop, the response       *)
(* parsers, the sanitizers and the short/long coercers.                    *)
(*                                                                         *)
(* Python values are records tagged by type (t).  A Python str is a        *)
(* sequence of tokens [k, n]: n characters of kind k.                      *)
(***************************************************************************)
EXTENDS Integers, Sequences, FiniteSets, TLC

VARIABLES
    \* services.brand_voice.generate / generate_single_product
    api_key,            \* OPENAI_API_KEY is set in the environment
    client,             \* module-level client: "None" or "set"
    products,           \* the caller's list of product dicts (mutated in place)
    category,           \* the category argument of generate
    enhanced_products,  \* the list generate returns
    idx,                \* position of the for loop of generate
    pc,                 \* control state of generate
    attempt,            \* loop variable of the retry loop
    last_error,         \* last_error of generate_single_product
    prompt,             \* prompt built for the product in hand
    now,                \* seconds since generate_single_product was entered
    wake_at,            \* time the pending asyncio.sleep returns
    calls,              \* external calls made for the product in hand
    sleeps,             \* backoff waits made for the product in hand
    raised,             \* exception raised by the last generate_single_product
    last_cause,         \* why the last external call or its handling failed
    \* routers.brand_voice.generate_brand_voice
    openai_client,      \* module-level client of the router: "None" or "set"
    request,            \* the BrandVoiceRequest
    products_to_process,\* products_to_process of the endpoint
    processed_products, \* processed_products of the endpoint
    ridx,               \* position of the endpoint's for loop
    rpc,                \* control state of the endpoint
    sent,               \* user_content of every external call of the endpoint
    trail,              \* per product: how its bundle was obtained
    http_status,        \* status of the HTTP response, 0 before it is sent
    \* pure functions applied to drawn inputs
    fn,                 \* the function applied
    arg,                \* its input
    out,                \* its result, NoOut before it is applied
    \* app.main: the asynchronous PDF jobs
    JOBS,               \* keys of the module-level JOBS dict
    job,                \* the job dicts ever created, by job id (None before creation)
    task,               \* position of the background task process_pdf_job, by job id
    clock,              \* datetime.now(), in seconds
    polled,             \* last answer of get_job_status
    \* app.batching.make_ranges
    frame               \* arguments and locals of the running make_ranges call

svcVars == <<api_key, client, products, category, enhanced_products, idx, pc,
             attempt, last_error, prompt, now, wake_at, calls, sleeps, raised, last_cause>>
rtrVars == <<openai_client, request, products_to_process, processed_products,
             ridx, rpc, sent, trail, http_status>>
fnVars  == <<fn, arg, out>>
jobVars == <<JOBS, job, task, clock, polled, frame>>
vars    == <<svcVars, rtrVars, fnVars, jobVars>>

-----------------------------------------------------------------------------
(* Python values *)

Missing   == [t |-> "missing"]                \* key absent from a dict
None      == [t |-> "none"]
Str(s)    == [t |-> "str",  v |-> s]
Num(i)    == [t |-> "num",  v |-> i]
Bool(b)   == [t |-> "bool", v |-> b]
List(l)   == [t |-> "list", v |-> l]
Dict(f)   == [t |-> "dict", v |-> f]

\* bool(x) of Python; a missing key never reaches it (get supplies a default)
Truthy(x) ==
    CASE x.t = "str"  -> x.v /= <<>>
      [] x.t = "num"  -> x.v /= 0
      [] x.t = "bool" -> x.v
      [] x.t = "list" -> x.v /= <<>>
      [] x.t = "dict" -> DOMAIN x.v /= {}
      [] OTHER        -> FALSE

\* d.get(key, default) on a record whose absent keys hold Missing
Get(d, key, default) == IF d[key] = Missing THEN default ELSE d[key]

Exc(e)    == [t |-> "exc",  v |-> e]          \* an exception object
Ok(v)     == [ok |-> TRUE,  v |-> v]
Raise(e)  == [ok |-> FALSE, err |-> e]

-----------------------------------------------------------------------------
(* Text *)

Tok(k, n) == [k |-> k, n |-> n]

W(n)   == Tok("w", n)        \* n letters
SP     == Tok("sp", 1)       \* one blank
DOT    == Tok("dot", 1)      \* "."
BANG   == Tok("excl", 1)     \* "!" or "?"
COMMA  == Tok("comma", 1)    \* ","
P      == Tok("p", 3)        \* "<p>"
EP     == Tok("/p", 4)       \* "</p>"
BR     == Tok("br", 4)       \* "<br>"
BRS    == Tok("br/", 5)      \* "<br/>"
BUL    == Tok("bul", 1)      \* the bullet character
NBSP   == Tok("nbsp", 6)     \* "&nbsp;"

\* kinds that are runs of one character class: any prefix is of the same kind
RunKinds == {"w", "dig", "sp", "dot", "excl", "comma", "dash", "x", "nl"}
\* words that are spelled out, with their lower-case form
Spelled == {"Dorset", "dorset", "DORSET", "Since", "since", "1919", "1990",
            "Harts", "of", "Stur", "family-run", "family", "run",
            "imported", "Imported", "from", "shop", "buy", "order", "price",
            "delivery", "shipping", "and", "with", "harts", "stur", "ml", "l", "cm",
            "for", "stainless", "steel", "dishwasher", "safe"}
Fold(k) ==
    CASE k \in {"Dorset", "DORSET"} -> "dorset"
      [] k = "Since"                -> "since"
      [] k = "Harts"                -> "harts"
      [] k = "Stur"                 -> "stur"
      [] k = "Imported"             -> "imported"
      [] OTHER                      -> k
WordKinds  == {"w", "dig"} \cup Spelled               \* \w characters only ("family-run" aside)
TagKinds   == {"p", "/p", "br", "br/", "script", "/script", "style", "/style",
               "iframe", "/iframe", "object", "/object", "embed", "link", "meta"}
SpaceKinds == {"sp"}

\* len(s) of Python: the number of characters
RECURSIVE len(_)
len(s) ==
    IF s = <<>> THEN 0
    ELSE IF Len(s) = 1 THEN s[1].n
    ELSE LET h == Len(s) \div 2
         IN  len(SubSeq(s, 1, h)) + len(SubSeq(s, h + 1, Len(s)))

\* a \o b for two texts in normal form: the runs that meet become one run
Glue(a, b) ==
    IF a /= <<>> /\ b /= <<>> /\ a[Len(a)].k \in RunKinds /\ b[1].k = a[Len(a)].k
    THEN SubSeq(a, 1, Len(a) - 1) \o <<Tok(b[1].k, a[Len(a)].n + b[1].n)>> \o Tail(b)
    ELSE a \o b

\* adjacent runs of one kind are one run; empty runs vanish
RECURSIVE Norm(_)
Norm(s) ==
    IF s = <<>> THEN <<>>
    ELSE IF Len(s) = 1 THEN (IF s[1].n = 0 THEN <<>> ELSE s)
    ELSE LET h == Len(s) \div 2
         IN  Glue(Norm(SubSeq(s, 1, h)), Norm(SubSeq(s, h + 1, Len(s))))

\* the first m characters of one token
Cut(tok, m) ==
    IF tok.k \in RunKinds THEN Tok(tok.k, m)
    ELSE IF tok.k \in {"1919", "1990"} THEN Tok("dig", m)
    ELSE IF tok.k \in WordKinds THEN Tok("w", m)
    ELSE Tok("x", m)

\* s[:m]
Take(s, m) ==
    IF m <= 0 THEN <<>>
    ELSE IF len(s) <= m THEN s
    ELSE LET k    == Cardinality({i \in 1..Len(s) : len(SubSeq(s, 1, i)) <= m})
             left == m - len(SubSeq(s, 1, k))
         IN  SubSeq(s, 1, k) \o (IF left > 0 THEN <<Cut(s[k + 1], left)>> ELSE <<>>)

RECURSIVE LStrip(_)
LStrip(s) == IF s /= <<>> /\ Head(s).k \in SpaceKinds THEN LStrip(Tail(s)) ELSE s
RECURSIVE RStrip(_)
RStrip(s) ==
    IF s /= <<>> /\ s[Len(s)].k \in SpaceKinds
    THEN RStrip(SubSeq(s, 1, Len(s) - 1)) ELSE s
\* s.strip()
Strip(s) == LStrip(RStrip(s))

SCRIPT  == Tok("script", 8)    \* "<script>"
ESCRIPT == Tok("/script", 9)   \* "</script>"
ONATTR  == Tok("onattr", 11)   \* an inline handler such as onclick="x" (quoted value)
JS      == Tok("js", 11)       \* "javascript:"

IsWordChar(tok) == tok.k \in WordKinds
\* the token begins (ends) with a \w character: what \b looks at
StartsWord(tok) == tok.k \in WordKinds \cup {"onattr", "js"}
EndsWord(tok)   == tok.k \in WordKinds
IsSpace(tok)    == tok.k \in SpaceKinds
IsPunct(tok)    == tok.k \in {"dot", "comma"}      \* the class [.,;:]

\* s without the tokens i..j
Without(s, i, j) == SubSeq(s, 1, i - 1) \o SubSeq(s, j + 1, Len(s))

-----------------------------------------------------------------------------
(* app/config.py *)

OPENAI_MAX_RETRIES_plus_one == 3 + 1
OPENAI_MAX_RETRIES == 3
OPENAI_TIMEOUT == 120

FORBIDDEN_PHRASES ==
    << <<"harts", "of", "stur">>, <<"since", "1919">>, <<"since", "1990">>,
       <<"dorset">>, <<"family-run">>, <<"family", "run">>, <<"imported", "from">> >>

\* category names, a Python str as its characters
cKnivesCutlery == <<"K", "n", "i", "v", "e", "s", ",", " ", "C", "u", "t", "l", "e", "r", "y">>
cElectricals == <<"E", "l", "e", "c", "t", "r", "i", "c", "a", "l", "s">>
cDiningDrinkLiving == <<"D", "i", "n", "i", "n", "g", ",", " ", "D", "r", "i", "n", "k", ",", " ", "L", "i", "v", "i", "n", "g">>
cBakewareCookware == <<"B", "a", "k", "e", "w", "a", "r", "e", ",", " ", "C", "o", "o", "k", "w", "a", "r", "e">>
cFoodPrepTools == <<"F", "o", "o", "d", " ", "P", "r", "e", "p", " ", "&", " ", "T", "o", "o", "l", "s">>
cClothing == <<"C", "l", "o", "t", "h", "i", "n", "g">>
cSeasonal == <<"S", "e", "a", "s", "o", "n", "a", "l">>
cGeneral == <<"G", "e", "n", "e", "r", "a", "l">>

\* ALLOWED_SPECS, the allow-list of specification keys per category
ALLOWED_SPECS ==
    [c \in {cKnivesCutlery, cElectricals, cDiningDrinkLiving, cBakewareCookware,
            cFoodPrepTools, cClothing, cSeasonal, cGeneral} |->
        CASE c = cKnivesCutlery ->
               {"material", "bladeLength", "dimensions", "weight", "origin", "guarantee", "care"}
          [] c = cElectricals ->
               {"capacity", "dimensions", "weight", "powerW", "programs", "origin", "guarantee", "care"}
          [] c = cDiningDrinkLiving ->
               {"material", "capacity", "dimensions", "weight", "origin", "guarantee", "care"}
          [] c = cBakewareCookware ->
               {"material", "dimensions", "weight", "capacity", "origin", "guarantee", "care"}
          [] c = cFoodPrepTools ->
               {"material", "dimensions", "weight", "origin", "guarantee", "care"}
          [] c = cClothing ->
               {"material", "dimensions", "weight", "origin", "care"}
          [] OTHER ->
               {"material", "dimensions", "weight", "capacity", "origin", "guarantee", "care"}]

-----------------------------------------------------------------------------
(* app/utils/sanitizers.py *)

\* (?:\s|&nbsp;|<[^>]+>) of the phrase pattern
IsPhraseSep(tok) == tok.k \in SpaceKinds \cup {"nbsp"} \cup TagKinds

RECURSIVE SkipWhile(_, _, _)
\* the first index >= j whose token is not of the kinds ks
SkipWhile(s, j, ks) ==
    IF j <= Len(s) /\ s[j].k \in ks THEN SkipWhile(s, j + 1, ks) ELSE j

RECURSIVE MatchWords(_, _, _, _, _)
\* the words w.. of phrase matched from token i on, separated by runs of seps:
\* the index of the last token matched, 0 when there is no match
MatchWords(s, i, phrase, w, seps) ==
    IF i > Len(s) \/ Fold(s[i].k) /= phrase[w] THEN 0
    ELSE IF w = Len(phrase) THEN i
    ELSE LET j == SkipWhile(s, i + 1, seps)
         IN  IF j = i + 1 THEN 0 ELSE MatchWords(s, j, phrase, w + 1, seps)

\* \b phrase \b at token i: the index of the last token of the match, or 0
PhraseAt(s, i, phrase) ==
    LET e == MatchWords(s, i, phrase, 1, SpaceKinds \cup {"nbsp"} \cup TagKinds)
    IN  IF e > 0 /\ (i = 1 \/ ~EndsWord(s[i - 1]))
                 /\ (e = Len(s) \/ ~StartsWord(s[e + 1]))
        THEN e ELSE 0

RECURSIVE RemovePhraseFrom(_, _, _)
RemovePhraseFrom(s, i, phrase) ==
    IF i > Len(s) THEN <<>>
    ELSE LET e == PhraseAt(s, i, phrase)
         IN  IF e > 0 THEN RemovePhraseFrom(s, e + 1, phrase)
             ELSE <<s[i]>> \o RemovePhraseFrom(s, i + 1, phrase)

\* re.sub(pattern of phrase, "", s, flags=IGNORECASE)
RemovePhrase(s, phrase) == Norm(RemovePhraseFrom(s, 1, phrase))

RECURSIVE RemovePhrases(_, _)
\* the for loop over FORBIDDEN_PHRASES, from phrase number f on
RemovePhrases(s, f) ==
    IF f > Len(FORBIDDEN_PHRASES) THEN s
    ELSE RemovePhrases(RemovePhrase(s, FORBIDDEN_PHRASES[f]), f + 1)

\* what \w+ leaves of a token it enters but does not end in
WordRest(tok) ==
    CASE tok.k = "family-run" -> <<Tok("x", 1), Tok("run", 3)>>
      [] tok.k = "onattr"     -> <<Tok("x", 4)>>
      [] tok.k = "js"         -> <<Tok("x", 1)>>

\* \bimported\s+from\s+\w+\b at token i: <<last token matched, what is left of it>>
ImportedAt(s, i) ==
    LET e == MatchWords(s, i, <<"imported", "from">>, 1, SpaceKinds)
        j == IF e = 0 THEN 0 ELSE SkipWhile(s, e + 1, SpaceKinds)
        z == SkipWhile(s, j, WordKinds \ {"family-run"})
    IN  IF e = 0 \/ j = e + 1 \/ j > Len(s) \/ ~StartsWord(s[j])
           \/ ~(i = 1 \/ ~EndsWord(s[i - 1]))
        THEN <<0, <<>> >>
        ELSE IF z <= Len(s) /\ StartsWord(s[z]) THEN <<z, WordRest(s[z])>>
        ELSE <<z - 1, <<>> >>

RECURSIVE RemoveImportedFrom(_, _)
RemoveImportedFrom(s, i) ==
    IF i > Len(s) THEN <<>>
    ELSE LET m == ImportedAt(s, i)
         IN  IF m[1] > 0 THEN m[2] \o RemoveImportedFrom(s, m[1] + 1)
             ELSE <<s[i]>> \o RemoveImportedFrom(s, i + 1)

\* re.sub(r"\s{2,}", " ", s)
CollapseSpaces(s) ==
    LET t == Norm(s)
    IN  [i \in DOMAIN t |-> IF IsSpace(t[i]) THEN Tok(t[i].k, 1) ELSE t[i]]

\* re.sub(r'\s+([.,;:])', r'\1', s)
DropSpaceBeforePunct(s) ==
    LET t == Norm(s)
    IN  Norm(SelectSeq([i \in DOMAIN t |->
                          IF IsSpace(t[i]) /\ i < Len(t) /\ IsPunct(t[i + 1])
                          THEN Tok(t[i].k, 0) ELSE t[i]],
                       LAMBDA x : x.n > 0))

RECURSIVE CollapsePunctFrom(_, _)
CollapsePunctFrom(t, i) ==
    IF i > Len(t) THEN <<>>
    ELSE IF IsPunct(t[i]) /\ t[i].n >= 2
         THEN <<Tok(t[i].k, 1)>> \o CollapsePunctFrom(t, i + 1)
    ELSE IF IsPunct(t[i]) /\ i + 2 <= Len(t) /\ IsSpace(t[i + 1]) /\ t[i + 2].k = t[i].k
         THEN <<Tok(t[i].k, 1)>> \o CollapsePunctFrom(t, i + 3)
    ELSE <<t[i]>> \o CollapsePunctFrom(t, i + 1)

\* re.sub(r'([.,;:])\s*\1+', r'\1', s)
CollapsePunct(s) == CollapsePunctFrom(Norm(s), 1)

UnNbsp(s) == Norm([i \in DOMAIN s |-> IF s[i].k = "nbsp" THEN SP ELSE s[i]])

strip_forbidden_phrases(content) ==
    IF content = <<>> THEN content
    ELSE Strip(CollapsePunct(DropSpaceBeforePunct(CollapseSpaces(
             Norm(RemoveImportedFrom(RemovePhrases(UnNbsp(content), 1), 1))))))

RECURSIVE FirstOf(_, _, _)
\* the first index >= i of a token of kind k, 0 when there is none
FirstOf(s, i, k) ==
    IF i > Len(s) THEN 0 ELSE IF s[i].k = k THEN i ELSE FirstOf(s, i + 1, k)

CloseOf(tag) ==
    CASE tag = "script" -> "/script" [] tag = "style" -> "/style"
      [] tag = "iframe" -> "/iframe" [] tag = "object" -> "/object"
      [] tag = "p" -> "/p"

RECURSIVE RemoveBlocks(_, _)
\* re.sub(r'<tag[^>]*>.*?</tag>', '', s, flags=IGNORECASE | DOTALL)
RemoveBlocks(s, tag) ==
    LET a == FirstOf(s, 1, tag)
        b == IF a = 0 THEN 0 ELSE FirstOf(s, a + 1, CloseOf(tag))
    IN  IF b = 0 THEN s
        ELSE SubSeq(s, 1, a - 1) \o RemoveBlocks(SubSeq(s, b + 1, Len(s)), tag)

RemoveKinds(s, ks) == SelectSeq(s, LAMBDA x : x.k \notin ks)

\* re.sub(r'\s+on\w+\s*=\s*["\'][^"\']*["\']', '', s): a handler and the blanks before it
RemoveHandlers(s) ==
    LET t == Norm(s)
    IN  SelectSeq([i \in DOMAIN t |->
                     IF (t[i].k = "onattr" /\ i > 1 /\ IsSpace(t[i - 1]))
                        \/ (IsSpace(t[i]) /\ i < Len(t) /\ t[i + 1].k = "onattr")
                     THEN Tok(t[i].k, 0) ELSE t[i]],
                  LAMBDA x : x.n > 0)

sanitize_html(content) ==
    IF content = <<>> THEN content
    ELSE Strip(Norm(RemoveKinds(RemoveHandlers(RemoveKinds(
             RemoveBlocks(RemoveBlocks(RemoveBlocks(RemoveBlocks(content,
                 "script"), "style"), "iframe"), "object"),
             {"embed", "link", "meta"})), {"js"})))

\* normalize_paragraphs: the text as paragraphs, each wrapped in <p>..</p>
\* (prefer_p_tags) or joined by "<br>\n". Tokens of its own: "nl" a run of
\* newlines, "pattr" a <p ...> tag with attributes, "<p" the two characters
\* of a tag that was never closed.
normalize_paragraphs(content, prefer_p_tags) ==
    LET blank == SpaceKinds \cup {"nl"}                      \* \s
        closing == TagKinds \cup {"pattr"}                   \* tokens that hold a ">"
        \* re.sub(first \s* second, "\n\n", t)
        RECURSIVE Pairs(_, _, _, _)
        Pairs(t, i, first, second) ==
            IF i > Len(t) THEN <<>>
            ELSE IF /\ t[i].k \in first
                    /\ SkipWhile(t, i + 1, blank) <= Len(t)
                    /\ t[SkipWhile(t, i + 1, blank)].k \in second
                 THEN <<Tok("nl", 2)>>
                      \o Pairs(t, SkipWhile(t, i + 1, blank) + 1, first, second)
                 ELSE <<t[i]>> \o Pairs(t, i + 1, first, second)
        \* re.sub(r'</?p[^>]*>', '', t): an unclosed "<p" runs to the next ">"
        RECURSIVE NoP(_, _)
        NoP(t, i) ==
            IF i > Len(t) THEN <<>>
            ELSE IF t[i].k \in {"p", "/p", "pattr"} THEN NoP(t, i + 1)
            ELSE IF t[i].k = "<p" /\ SkipWhile(t, i + 1, {t[j].k : j \in DOMAIN t} \ closing)
                                       <= Len(t)
                 THEN NoP(t, SkipWhile(t, i + 1, {t[j].k : j \in DOMAIN t} \ closing) + 1)
                 ELSE <<t[i]>> \o NoP(t, i + 1)
        \* re.sub(r'<br\s*/?>', '\n', t)
        Lines(t) == Norm([i \in DOMAIN t |->
                            IF t[i].k \in {"br", "br/"} THEN Tok("nl", 1) ELSE t[i]])
        RECURSIVE Chop(_)
        Chop(t) ==
            IF t /= <<>> /\ t[Len(t)].k \in blank THEN Chop(SubSeq(t, 1, Len(t) - 1)) ELSE t
        Trim(t) == Chop(SubSeq(t, SkipWhile(t, 1, blank), Len(t)))
        Gap(t, i) == t[i].k = "nl" /\ t[i].n >= 2
        \* [p.strip() for p in t.split('\n\n') if p.strip()]
        RECURSIVE Split(_, _, _)
        Split(t, from, i) ==
            IF i > Len(t) THEN
                (IF Trim(SubSeq(t, from, Len(t))) = <<>> THEN <<>>
                 ELSE <<Trim(SubSeq(t, from, Len(t)))>>)
            ELSE IF Gap(t, i) THEN
                (IF Trim(SubSeq(t, from, i - 1)) = <<>> THEN <<>>
                 ELSE <<Trim(SubSeq(t, from, i - 1))>>) \o Split(t, i + 1, i + 1)
            ELSE Split(t, from, i + 1)
        RECURSIVE Wrapped(_)
        Wrapped(ps) ==
            IF ps = <<>> THEN <<>> ELSE <<P>> \o Head(ps) \o <<EP>> \o Wrapped(Tail(ps))
        RECURSIVE Broken(_)
        Broken(ps) ==
            IF ps = <<>> THEN <<>>
            ELSE IF Len(ps) = 1 THEN ps[1]
            ELSE Head(ps) \o <<BR, Tok("nl", 1)>> \o Broken(Tail(ps))
        Built(ps) == IF prefer_p_tags THEN Wrapped(ps) ELSE Broken(ps)
    IN  IF content = <<>> THEN content
        ELSE Built(Split(Lines(NoP(Norm(Pairs(Norm(Pairs(content, 1, {"br", "br/"},
                                                          {"br", "br/"})),
                                                1, {"/p"}, {"p"})), 1)), 1, 1))

-----------------------------------------------------------------------------
(* app/services/brand_voice.py *)

\* the keys of a product dict that the model carries
ProductKeys == {"name", "brand", "category", "specifications", "isNonStick",
                "guarantee", "warranty", "origin", "madeIn", "care",
                "descriptions", "_generation_error"}

\* {k: v for k, v in specs.items() if k in allowed}; items() exists on a dict only
filter_specifications(specs, cat) ==
    LET allowed == IF cat.t = "str" /\ cat.v \in DOMAIN ALLOWED_SPECS
                   THEN ALLOWED_SPECS[cat.v] ELSE ALLOWED_SPECS[cGeneral]
    IN  IF specs.t /= "dict" THEN Raise("AttributeError")
        ELSE Ok(Dict([k \in DOMAIN specs.v \cap allowed |-> specs.v[k]]))

\* prompt_data of build_prompt: the keys it does not set are Missing
build_prompt(product, cat) ==
    [name           |-> Get(product, "name", Str(<<>>)),
     category       |-> cat,
     brand          |-> IF Truthy(product["brand"]) THEN product["brand"] ELSE Missing,
     specifications |-> IF Truthy(product["specifications"])
                        THEN product["specifications"] ELSE Missing,
     isNonStick     |-> IF Truthy(product["isNonStick"]) THEN Bool(TRUE) ELSE Missing]

\* A raw response is a sequence of tokens: FENCE, a language tag, blanks, and
\* BODY(v): a text that json.loads turns into the value v (Invalid: it does not)
FENCE     == Tok("fence", 3)
TAGjson   == Tok("json", 4)
TAGJSON   == Tok("JSON", 4)
Invalid   == [t |-> "invalid"]
BODY(v)   == [k |-> "body", n |-> 1, v |-> v]
Obj(short_html, long_html) == Dict([short_html |-> short_html, long_html |-> long_html])

\* json.loads: one JSON text, blanks around it allowed
json_loads(c) ==
    LET b == Strip(c)
    IN  IF Len(b) = 1 /\ b[1].k = "body" /\ b[1].v /= Invalid
        THEN Ok(b[1].v) ELSE Raise("JSONDecodeError")

\* through the last "." of s, s[:s.rfind('.') + 1]
RECURSIVE ThroughLastDot(_)
ThroughLastDot(s) ==
    IF s = <<>> THEN <<>>
    ELSE IF s[Len(s)].k = "dot" THEN s
    ELSE ThroughLastDot(SubSeq(s, 1, Len(s) - 1))

HasDot(s) == \E i \in DOMAIN s : s[i].k = "dot"
Ellipsis == <<Tok("dot", 3)>>

\* re.sub(r'<[^>]+>', '', s)
StripTags(s) == Norm(RemoveKinds(s, TagKinds))

extract_meta_from_long_html(long_html) ==
    LET a == FirstOf(long_html, 1, "p")
        b == IF a = 0 THEN 0 ELSE FirstOf(long_html, a + 1, "/p")
        meta  == StripTags(Strip(SubSeq(long_html, a + 1, b - 1)))
        plain == Strip(StripTags(long_html))
    IN  IF b > 0
        THEN IF len(meta) > 160
             THEN IF HasDot(Take(meta, 160)) THEN ThroughLastDot(Take(meta, 160))
                  ELSE Norm(Take(meta, 157) \o Ellipsis)
             ELSE meta
        ELSE IF len(plain) > 160 THEN Norm(Take(plain, 157) \o Ellipsis) ELSE plain

parse_openai_response(content) ==
    LET c0 == Strip(content)
        c1 == IF Len(c0) >= 2 /\ c0[1].k = "fence" /\ c0[2].k = "json"
              THEN SubSeq(c0, 3, Len(c0))
              ELSE IF Len(c0) >= 1 /\ c0[1].k = "fence" THEN Tail(c0) ELSE c0
        c2 == IF c1 /= <<>> /\ c1[Len(c1)].k = "fence"
              THEN SubSeq(c1, 1, Len(c1) - 1) ELSE c1
        data == json_loads(Strip(c2))
        short_html == Get(data.v.v, "short_html", Str(<<>>))
        long_html  == Get(data.v.v, "long_html", Str(<<>>))
    IN  IF ~data.ok THEN Raise("Invalid JSON from OpenAI")
        ELSE IF data.v.t /= "dict" THEN Raise("AttributeError")
        ELSE IF ~Truthy(short_html) \/ ~Truthy(long_html)
             THEN Raise("Missing short_html or long_html in response")
        ELSE IF long_html.t /= "str" THEN Raise("TypeError")
        ELSE Ok([shortDescription |-> short_html,
                 metaDescription  |-> Str(extract_meta_from_long_html(long_html.v)),
                 longDescription  |-> long_html])

\* strip_forbidden_phrases then sanitize_html of one field: a falsy value is
\* returned as it is, another value that is no str has no replace()
SanitizeField(x) ==
    IF ~Truthy(x) THEN Ok(x)
    ELSE IF x.t /= "str" THEN Raise("AttributeError")
    ELSE Ok(Str(sanitize_html(strip_forbidden_phrases(x.v))))

sanitize_descriptions(descriptions) ==
    LET sh == SanitizeField(descriptions.shortDescription)
        me == SanitizeField(descriptions.metaDescription)
        lo == SanitizeField(descriptions.longDescription)
    IN  IF ~sh.ok THEN sh ELSE IF ~me.ok THEN me ELSE IF ~lo.ok THEN lo
        ELSE Ok([shortDescription |-> sh.v, metaDescription |-> me.v,
                 longDescription |-> lo.v])

\* What client.chat.completions.create does: it raises an OpenAIError (a provider
\* error or a timeout) or returns a response with some content
IsOpenAIError(o) == o.kind \in {"APIError", "APITimeoutError"}

\* the try body of the retry loop, after the call returned or raised
TryBody(o) ==
    IF IsOpenAIError(o) THEN Raise(o.kind)
    ELSE IF ~Truthy(o.content) THEN Raise("OpenAI returned empty response")
    ELSE LET parsed == parse_openai_response(o.content.v)
         IN  IF ~parsed.ok THEN parsed ELSE sanitize_descriptions(parsed.v)

\* if attempt < OPENAI_MAX_RETRIES: the failed attempt is followed by another
MayRetry(a) == a < OPENAI_MAX_RETRIES
\* wait_time = 2 ** attempt
wait_time_linear(a) == a + 1
wait_time(a) == 2 ^ a

\* the bundle generate attaches in its except branch
ErrorBundle ==
    [shortDescription |-> Str(<<P, W(10), SP, W(5), EP>>),
     metaDescription  |-> Str(<<W(7), SP, W(11), SP, W(10), SP, W(6), DOT>>),
     longDescription  |-> Str(<<P, W(6), SP, W(2), SP, W(8), SP, W(11), DOT, EP>>)]

\* the except branch of generate: the product with the error marker
WithErrorMarker(product, e) ==
    [product EXCEPT !["descriptions"] = Dict(ErrorBundle),
                    !["_generation_error"] = e]

-----------------------------------------------------------------------------
(* Character strings: a category or an origin is a Python str kept as the
   sequence of its characters *)

LowerOf == ("A" :> "a") @@ ("B" :> "b") @@ ("C" :> "c") @@ ("D" :> "d") @@ ("E" :> "e") @@ ("F" :> "f") @@ ("G" :> "g") @@ ("H" :> "h") @@ ("I" :> "i") @@ ("J" :> "j") @@ ("K" :> "k") @@ ("L" :> "l") @@ ("M" :> "m") @@ ("N" :> "n") @@ ("O" :> "o") @@ ("P" :> "p") @@ ("Q" :> "q") @@ ("R" :> "r") @@ ("S" :> "s") @@ ("T" :> "t") @@ ("U" :> "u") @@ ("V" :> "v") @@ ("W" :> "w") @@ ("X" :> "x") @@ ("Y" :> "y") @@ ("Z" :> "z")
UpperOf == ("a" :> "A") @@ ("b" :> "B") @@ ("c" :> "C") @@ ("d" :> "D") @@ ("e" :> "E") @@ ("f" :> "F") @@ ("g" :> "G") @@ ("h" :> "H") @@ ("i" :> "I") @@ ("j" :> "J") @@ ("k" :> "K") @@ ("l" :> "L") @@ ("m" :> "M") @@ ("n" :> "N") @@ ("o" :> "O") @@ ("p" :> "P") @@ ("q" :> "Q") @@ ("r" :> "R") @@ ("s" :> "S") @@ ("t" :> "T") @@ ("u" :> "U") @@ ("v" :> "V") @@ ("w" :> "W") @@ ("x" :> "X") @@ ("y" :> "Y") @@ ("z" :> "Z")
\* s.lower(), s.upper()
Lower(s) == [i \in DOMAIN s |-> IF s[i] \in DOMAIN LowerOf THEN LowerOf[s[i]] ELSE s[i]]
Upper(s) == [i \in DOMAIN s |-> IF s[i] \in DOMAIN UpperOf THEN UpperOf[s[i]] ELSE s[i]]
RECURSIVE CStrip(_)
\* s.strip() on characters
CStrip(s) ==
    IF s /= <<>> /\ Head(s) = " " THEN CStrip(Tail(s))
    ELSE IF s /= <<>> /\ s[Len(s)] = " " THEN CStrip(SubSeq(s, 1, Len(s) - 1))
    ELSE s
\* k in s
Contains(s, k) ==
    \E i \in 1..(Len(s) - Len(k) + 1) : SubSeq(s, i, i + Len(k) - 1) = k

-----------------------------------------------------------------------------
(* app/routers/brand_voice.py: helpers *)

ALLOWED_CATEGORIES ==
    {cBakewareCookware, cDiningDrinkLiving, cElectricals, cFoodPrepTools,
     cKnivesCutlery, cClothing, cGeneral}

\* ALLOWED_SPECS_BY_CATEGORY of the router
ALLOWED_SPECS_BY_CATEGORY ==
    [c \in ALLOWED_CATEGORIES |->
        CASE c = cKnivesCutlery ->
               {"material", "bladeLength", "dimensions", "weight", "origin", "guarantee", "care"}
          [] c = cElectricals ->
               {"capacity", "dimensions", "weight", "powerW", "programs", "origin", "guarantee", "care"}
          [] c = cDiningDrinkLiving ->
               {"material", "capacity", "dimensions", "weight", "origin", "guarantee", "care"}
          [] c = cBakewareCookware ->
               {"material", "dimensions", "weight", "capacity", "origin", "guarantee", "care"}
          [] c = cFoodPrepTools ->
               {"material", "dimensions", "weight", "origin", "guarantee", "care"}
          [] c = cClothing ->
               {"material", "dimensions", "weight", "origin", "care"}
          [] OTHER ->
               {"material", "dimensions", "weight", "capacity", "origin", "guarantee", "care"}]

\* text[:max_length].strip() when text is longer than max_length
clamp(text, max_length) ==
    IF text = <<>> \/ len(text) <= max_length THEN text
    ELSE Strip(Take(text, max_length))

EndsWithDot(s) == s /= <<>> /\ s[Len(s)].k = "dot"

\* the first character in upper case: text[0].upper() + text[1:]
Capitalise(s) ==
    IF s = <<>> THEN s
    ELSE LET k == Head(s).k
             u == CASE k = "dorset"   -> "Dorset"
                    [] k = "since"    -> "Since"
                    [] k = "harts"    -> "Harts"
                    [] k = "stur"     -> "Stur"
                    [] k = "imported" -> "Imported"
                    [] OTHER          -> k
         IN  <<Tok(u, Head(s).n)>> \o Tail(s)

\* s without its last character
DropLastChar(s) ==
    IF s = <<>> THEN s
    ELSE Norm(SubSeq(s, 1, Len(s) - 1) \o Take(<<s[Len(s)]>>, s[Len(s)].n - 1))

SentenceEnd == {"dot", "excl"}                    \* the class [.!?]
Conjunctions == {"and", "with", "for"}                   \* of the trailing-conjunction pattern

\* re.search(r'[.!?].+\.\s*$', s) for s ending in a period
EarlierSentenceEnd(s) ==
    \E j \in DOMAIN s :
        s[j].k \in SentenceEnd /\ len(SubSeq(s, 1, j - 1)) <= len(s) - 3

RECURSIVE TrimConjunctions(_)
\* re.sub(r'(?:\s+(?:and|or|with|...)\s*)+$', '', s)
TrimConjunctions(s) ==
    LET t == RStrip(s)
        n == Len(t)
    IN  IF n >= 2 /\ t[n].k \in Conjunctions /\ IsSpace(t[n - 1])
        THEN TrimConjunctions(SubSeq(t, 1, n - 2))
        ELSE s

\* re.sub(pattern r'[c]\s*$', '', s) for a one-character class c
TrimTrailing(s, kinds) ==
    LET t == RStrip(s)
    IN  IF t /= <<>> /\ t[Len(t)].k \in kinds THEN DropLastChar(t) ELSE s

finish_meta_single_sentence(meta) ==
    LET s == Strip(CollapseSpaces(meta))
    IN  IF EndsWithDot(s) /\ ~EarlierSentenceEnd(s) THEN s
        ELSE LET a == TrimConjunctions(s)
                 b == TrimTrailing(a, {"dash"})
                 c == TrimTrailing(b, {"comma"})
             IN  IF EndsWithDot(c) THEN c ELSE Norm(c \o <<DOT>>)

\* s.rfind('.') + 1: the characters up to the last period, 0 when there is none
RECURSIVE UpToLastDot(_)
UpToLastDot(s) ==
    IF s = <<>> THEN 0
    ELSE IF s[Len(s)].k = "dot" THEN len(s)
    ELSE UpToLastDot(SubSeq(s, 1, Len(s) - 1))

RECURSIVE DropTrailing(_, _)
\* s without the trailing tokens of the given kinds
DropTrailing(s, kinds) ==
    IF s /= <<>> /\ s[Len(s)].k \in kinds
    THEN DropTrailing(SubSeq(s, 1, Len(s) - 1), kinds) ELSE s

\* re.sub(r'[.!?]*\s*$', '.', s): the trailing run is replaced by a period and
\* the empty match that follows it at the end of the string by another one
EndWithPeriod(s) ==
    LET body == DropTrailing(DropTrailing(s, SpaceKinds), SentenceEnd)
    IN  IF body = s THEN Norm(s \o <<DOT>>) ELSE Norm(body \o <<Tok("dot", 2)>>)

clean_meta_description(text, max_len) ==
    IF text = <<>> THEN <<>>
    ELSE LET s0 == Strip(CollapseSpaces(text))
             s1 == IF len(s0) > max_len
                   THEN LET c == Take(s0, max_len)
                            d == UpToLastDot(c)
                        IN  IF d - 1 > 0 /\ d - 1 >= len(c) - 25 THEN Take(c, d) ELSE c
                   ELSE s0
         IN  Strip(EndWithPeriod(Capitalise(s1)))

\* the synonyms dict of normalise_category, in its order
synonyms ==
    << <<<<"b", "a", "k", "e", "w", "a", "r", "e">>, cBakewareCookware>>,
       <<<<"c", "o", "o", "k", "w", "a", "r", "e">>, cBakewareCookware>>,
       <<<<"d", "i", "n", "i", "n", "g">>, cDiningDrinkLiving>>,
       <<<<"d", "r", "i", "n", "k">>, cDiningDrinkLiving>>,
       <<<<"l", "i", "v", "i", "n", "g">>, cDiningDrinkLiving>>,
       <<<<"e", "l", "e", "c", "t", "r", "i", "c", "a", "l">>, cElectricals>>,
       <<<<"f", "o", "o", "d", " ", "p", "r", "e", "p">>, cFoodPrepTools>>,
       <<<<"t", "o", "o", "l", "s">>, cFoodPrepTools>>,
       <<<<"k", "n", "i", "v", "e", "s">>, cKnivesCutlery>>,
       <<<<"c", "u", "t", "l", "e", "r", "y">>, cKnivesCutlery>>,
       <<<<"c", "l", "o", "t", "h", "e", "s">>, cClothing>> >>

RECURSIVE FirstSynonym(_, _, _)
\* the for loop over synonyms.items(), from entry i on
FirstSynonym(key, i, fallback) ==
    IF i > Len(synonyms) THEN fallback
    ELSE IF Contains(key, synonyms[i][1]) THEN Str(synonyms[i][2])
    ELSE FirstSynonym(key, i + 1, fallback)

\* normalise_category returning the text it was given when nothing matches
normalise_category_no_fallback(cat, fallback) ==
    IF ~Truthy(cat) THEN fallback
    ELSE LET c == CStrip(IF cat.t = "str" THEN cat.v ELSE <<"5">>)
         IN  IF c \in ALLOWED_CATEGORIES THEN Str(c)
             ELSE FirstSynonym(Lower(c), 1, Str(c))

\* cat and fallback are Python values; the result is the str of a category
normalise_category(cat, fallback) ==
    IF ~Truthy(cat) THEN fallback
    ELSE LET c == CStrip(IF cat.t = "str" THEN cat.v ELSE <<"5">>)     \* str(cat).strip()
         IN  IF c \in ALLOWED_CATEGORIES THEN Str(c)
             ELSE FirstSynonym(Lower(c), 1, fallback)

\* spec_allowed with the allow-list of one category for all
spec_allowed_any(cat, key) ==
    key \in ALLOWED_SPECS_BY_CATEGORY[cElectricals]

spec_allowed(cat, key) ==
    key \in (IF cat.t = "str" /\ cat.v \in DOMAIN ALLOWED_SPECS_BY_CATEGORY
             THEN ALLOWED_SPECS_BY_CATEGORY[cat.v]
             ELSE ALLOWED_SPECS_BY_CATEGORY[cGeneral])

uk_indicators ==
    << <<"U", "K">>,
       <<"U", "N", "I", "T", "E", "D", " ", "K", "I", "N", "G", "D", "O", "M">>,
       <<"E", "N", "G", "L", "A", "N", "D">>,
       <<"S", "C", "O", "T", "L", "A", "N", "D">>,
       <<"W", "A", "L", "E", "S">>,
       <<"N", "O", "R", "T", "H", "E", "R", "N", " ", "I", "R", "E", "L", "A", "N", "D">> >>

\* "10-year guarantee."
TenYearGuarantee == <<Tok("dig", 2), Tok("dash", 1), W(4), SP, W(9), DOT>>
\* "Made in UK."
MadeInUK == <<W(4), SP, W(2), SP, W(2), DOT>>

\* guarantee_for looking at the guarantee text before the non-stick flag
guarantee_for_text_first(item) ==
    LET g == IF Truthy(item["guarantee"]) THEN item["guarantee"] ELSE item["warranty"]
    IN  IF Truthy(g)
        THEN LET t == Strip(g.v)
             IN  Str(IF EndsWithDot(t) THEN t ELSE Norm(t \o <<DOT>>))
        ELSE IF item["isNonStick"].t = "bool" /\ item["isNonStick"].v
             THEN Str(TenYearGuarantee) ELSE None

\* the guarantee line of an item, None when there is none
guarantee_for(item) ==
    IF item["isNonStick"].t = "bool" /\ item["isNonStick"].v THEN Str(TenYearGuarantee)
    ELSE LET g == IF Truthy(item["guarantee"]) THEN item["guarantee"] ELSE item["warranty"]
         IN  IF ~Truthy(g) THEN None
             ELSE LET t == Strip(g.v)
                  IN  Str(IF EndsWithDot(t) THEN t ELSE Norm(t \o <<DOT>>))

\* the origin line of an item, None when the origin does not indicate the UK
made_in_line(item) ==
    LET m == Get(item, "madeIn", Str(<<>>))
        o == IF Truthy(m) THEN m ELSE Get(item, "origin", Str(<<>>))
        origin == Upper(IF o.t = "str" THEN o.v ELSE <<"N", "O", "N", "E">>)
    IN  IF \E i \in DOMAIN uk_indicators : Contains(origin, uk_indicators[i])
        THEN Str(MadeInUK) ELSE None

-----------------------------------------------------------------------------
(* app/services/seo_lighthouse.py: the meta description validator *)

SEO_META_MIN_LENGTH == 150
SEO_META_MAX_LENGTH == 160
\* the single words a keyword may not be
BANNED_SEO_KEYWORDS ==
    {"shop", "shops", "shopping", "buy", "order", "orders", "price", "prices",
     "sale", "every"}

\* kw.lower() in s.lower()
Occurs(kw, s) ==
    \E i \in 1..(Len(s) - Len(kw) + 1) :
        \A j \in 1..Len(kw) :
            /\ Fold(s[i + j - 1].k) = Fold(kw[j].k)
            /\ s[i + j - 1].n = kw[j].n

\* kw.lower() not in BANNED_SEO_KEYWORDS
NotBanned(kw) == ~(Len(kw) = 1 /\ Fold(kw[1].k) \in BANNED_SEO_KEYWORDS)

\* meta with up to three of the keywords appended while the target allows
pad_meta_with_keywords(meta, keywords, target_len) ==
    LET RECURSIVE PadFrom(_, _)
        PadFrom(result, i) ==
            IF i > Len(keywords) \/ i > 3 THEN result
            ELSE IF Occurs(keywords[i], result) THEN PadFrom(result, i + 1)
            ELSE IF len(result) + 6 + len(keywords[i]) + 1 <= target_len
                 THEN PadFrom(Norm(result \o <<SP, Tok("with", 4), SP>> \o keywords[i]),
                              i + 1)
                 ELSE result
        Closed(result) == IF EndsWithDot(result) THEN result ELSE Norm(result \o <<DOT>>)
    IN  IF keywords = <<>> THEN meta
        ELSE Closed(PadFrom(DropTrailing(meta, {"dot"}), 1))

\* meta cut to max_len at a sentence end, else at a word end, else hard
truncate_meta_smartly(meta, max_len) ==
    LET rfind(t, kinds) ==
            IF \E i \in DOMAIN t : t[i].k \in kinds
            THEN len(SubSeq(t, 1, CHOOSE i \in DOMAIN t :
                                     /\ t[i].k \in kinds
                                     /\ \A j \in DOMAIN t : t[j].k \in kinds => j <= i)) - 1
            ELSE -1
        Pick(last_period, last_space) ==
            IF last_period * 100 > max_len * 75 THEN Take(meta, last_period + 1)
            ELSE IF last_space * 100 > max_len * 85
                 THEN Norm(RStrip(Take(meta, last_space)) \o <<Tok("dot", 3)>>)
                 ELSE Norm(Take(meta, max_len - 3) \o <<Tok("dot", 3)>>)
    IN  IF len(meta) <= max_len THEN meta
        ELSE Pick(rfind(Take(meta, max_len), {"dot"}),
                  rfind(Take(meta, max_len), SpaceKinds))

\* meta with the keyword appended when it is absent and the result fits
inject_keyword(meta, keyword, max_len) ==
    LET Joined(n) == len(DropTrailing(meta, {"dot"})) + 1 + n + 1 + len(keyword) + 1
        With(word) == Norm(DropTrailing(meta, {"dot"}) \o <<SP, word, SP>>
                           \o keyword \o <<DOT>>)
    IN  IF Occurs(keyword, meta) THEN meta
        ELSE IF Joined(4) <= max_len THEN With(Tok("with", 4))
        ELSE IF Joined(3) <= max_len THEN With(Tok("for", 3))
        ELSE meta

\* the first sentence of meta, closed by a period unless it ends in "!" or "?"
ensure_single_sentence(meta) ==
    LET First(t) ==
            IF \E i \in 1..(Len(t) - 1) : t[i].k = "dot" /\ t[i + 1].k = "sp"
            THEN LET i == CHOOSE i \in 1..(Len(t) - 1) :
                              /\ t[i].k = "dot" /\ t[i + 1].k = "sp"
                              /\ \A j \in 1..(i - 1) : ~(t[j].k = "dot" /\ t[j + 1].k = "sp")
                 IN  Norm(SubSeq(t, 1, i - 1) \o <<Tok("dot", t[i].n - 1)>>)
            ELSE t
        Closed(t) ==
            IF EndsWithDot(t) \/ (t /= <<>> /\ t[Len(t)].k = "excl") THEN t
            ELSE Norm(t \o <<DOT>>)
    IN  Closed(CollapseSpaces(First(Strip(meta))))

\* the result of validate_and_fix_meta: the repaired text and the keywords in it
validate_and_fix_meta(meta_description, product_name, keywords) ==
    LET valid_keywords == SelectSeq(keywords, NotBanned)
        Sized(m) ==
            IF len(m) < SEO_META_MIN_LENGTH
            THEN pad_meta_with_keywords(m, keywords, SEO_META_MIN_LENGTH)
            ELSE IF len(m) > SEO_META_MAX_LENGTH
                 THEN truncate_meta_smartly(m, SEO_META_MAX_LENGTH)
                 ELSE m
        Present(m) == SelectSeq(valid_keywords, LAMBDA kw : Occurs(kw, m))
        Keyed(m) ==
            IF Present(m) = <<>> /\ valid_keywords /= <<>>
            THEN inject_keyword(m, valid_keywords[1], SEO_META_MAX_LENGTH)
            ELSE m
        Found(m, n) ==
            IF Present(m) = <<>> /\ valid_keywords /= <<>>
            THEN (IF Occurs(valid_keywords[1], n) THEN <<valid_keywords[1]>> ELSE <<>>)
            ELSE Present(m)
        Result(m) ==
            [original         |-> meta_description,
             fixed            |-> ensure_single_sentence(Keyed(m)),
             keywords_present |-> Found(m, Keyed(m))]
    IN  Result(Sized(Strip(meta_description)))

-----------------------------------------------------------------------------
(* app/routers/brand_voice.py: short and long HTML *)

\* s.split(): the words of s, split at blanks
RECURSIVE Words(_)
Words(s) ==
    LET t == LStrip(s)
    IN  IF t = <<>> THEN <<>>
        ELSE LET e == SkipWhile(t, 1, {t[i].k : i \in DOMAIN t} \ SpaceKinds)
             IN  <<SubSeq(t, 1, e - 1)>> \o Words(SubSeq(t, e, Len(t)))

\* ' '.join(ws)
RECURSIVE Join(_)
Join(ws) ==
    IF ws = <<>> THEN <<>>
    ELSE IF Len(ws) = 1 THEN ws[1]
    ELSE ws[1] \o <<SP>> \o Join(Tail(ws))

FirstN(q, n) == SubSeq(q, 1, IF Len(q) < n THEN Len(q) ELSE n)

MoreDetails == <<W(4), SP, W(7)>>
\* one fragment as build_short_html tidies it
Tidy(f) ==
    Capitalise(Join(FirstN(Words(Strip(DropTrailing(f, {"dot"}))), 8)))

ShortOf(t) == <<P>> \o t[1] \o <<BR>> \o t[2] \o <<BR>> \o t[3] \o <<EP>>

RECURSIVE TrimLast(_, _, _)
\* the while loop of build_short_html: the last fragment loses words
TrimLast(t, words, max_len) ==
    IF len(ShortOf(t)) > max_len /\ Len(words) > 2
    THEN LET w2 == SubSeq(words, 1, Len(words) - 1)
         IN  TrimLast([t EXCEPT ![3] = Join(w2)], w2, max_len)
    ELSE ShortOf(t)

build_short_html(fragments, max_len) ==
    LET kept  == SelectSeq([i \in DOMAIN fragments |-> Tidy(fragments[i])],
                           LAMBDA x : x /= <<>>)
        tidy  == kept \o [i \in 1..(3 - Len(kept)) |-> MoreDetails]
    IN  clamp(Norm(TrimLast(tidy, Words(tidy[3]), max_len)), max_len)

Count(s, k) == Cardinality({i \in DOMAIN s : s[i].k = k})

RECURSIVE SplitAt(_, _)
\* s.split(sep) for a one-token separator of kind k
SplitAt(s, k) ==
    IF \A i \in DOMAIN s : s[i].k /= k THEN <<s>>
    ELSE LET i == CHOOSE j \in DOMAIN s : s[j].k = k /\ \A h \in 1..(j - 1) : s[h].k /= k
         IN  <<SubSeq(s, 1, i - 1)>> \o SplitAt(SubSeq(s, i + 1, Len(s)), k)

defaults == << <<W(5), SP, W(7)>>, <<W(3), SP, W(7)>>, <<W(8), SP, W(3)>> >>

\* the text the rebuild of coerce_short_html starts from
PlainOf(text) ==
    LET noP == SelectSeq(text, LAMBDA x : x.k \notin {"p", "/p"})
        bul == [i \in DOMAIN noP |-> IF noP[i].k \in {"br", "br/"} THEN BUL ELSE noP[i]]
        RECURSIVE Spaced(_)
        Spaced(q) == IF q = <<>> THEN <<>>
                     ELSE IF Len(q) = 1
                          THEN (IF q[1].k = "bul" THEN <<SP, BUL, SP>> ELSE q)
                     ELSE LET h == Len(q) \div 2
                          IN  Spaced(SubSeq(q, 1, h)) \o Spaced(SubSeq(q, h + 1, Len(q)))
    IN  Strip(CollapseSpaces(Spaced(bul)))

coerce_short_html(short_html, cat) ==
    LET text == Strip(short_html)
        ok_structure == /\ text /= <<>> /\ Head(text).k = "p" /\ text[Len(text)].k = "/p"
                        /\ Count(text, "br") >= 2
        len_ok == len(text) <= 150
    IN  IF ok_structure /\ len_ok THEN text
        ELSE LET parts == SplitAt(PlainOf(text), "bul")
                 pool  == SelectSeq([i \in DOMAIN parts |-> Strip(parts[i])],
                                    LAMBDA x : x /= <<>>)
             IN  build_short_html(IF Len(pool) >= 3 THEN FirstN(pool, 3) ELSE defaults, 150)

\* str(v) of a value put into an f-string
TextOf(v) == IF v.t = "str" THEN v.v ELSE <<W(4)>>

\* "The {product_name} provides reliable performance for everyday use."
DefaultMeta(name) == <<W(3), SP>> \o name \o <<SP, W(8), SP, W(8), SP, W(11), SP, W(3), SP, W(8), SP, W(3), DOT>>
\* "<p>{product_name} is designed for everyday use with ... confidence.</p>"
DefaultBody(name) == <<P>> \o name \o <<SP, W(2), SP, W(8), SP, W(3), SP, W(8), SP, W(3), SP, W(4), SP, W(5), COMMA, SP, W(8), SP, W(7), SP, W(2), SP, W(4), SP, W(3), SP, W(6), SP, W(4), SP, W(10), DOT>> \o <<EP>>

BannedTerms == {"shop", "buy", "order", "price", "delivery", "shipping"}

\* re.sub(banned_pattern, '', s): banned words standing alone are removed
StripBanned(s) ==
    Norm(SelectSeq([i \in DOMAIN s |->
                      IF /\ s[i].k \in BannedTerms
                         /\ (i = 1 \/ ~EndsWord(s[i - 1]))
                         /\ (i = Len(s) \/ ~StartsWord(s[i + 1]))
                      THEN Tok(s[i].k, 0) ELSE s[i]],
                   LAMBDA x : x.n > 0))

\* .replace('  ', ' '): every pair of blanks becomes one
HalveSpaces(s) ==
    [i \in DOMAIN s |-> IF IsSpace(s[i]) THEN Tok("sp", (s[i].n + 1) \div 2) ELSE s[i]]

\* .replace(' .', '.'): the blank right before a period goes
DropOneSpaceBeforeDot(s) ==
    Norm(SelectSeq([i \in DOMAIN s |->
                      IF IsSpace(s[i]) /\ i < Len(s) /\ s[i + 1].k = "dot"
                      THEN Tok("sp", s[i].n - 1) ELSE s[i]],
                   LAMBDA x : x.n > 0))

\* position of the first token of kind k after position i, 0 when there is none
FirstAfter(s, k, i) ==
    IF \E j \in (i + 1)..Len(s) : s[j].k = k
    THEN CHOOSE j \in (i + 1)..Len(s) : s[j].k = k /\ \A h \in (i + 1)..(j - 1) : s[h].k /= k
    ELSE 0

coerce_long_html(long_html, product_name, cat) ==
    LET html == Strip(long_html)
        name == TextOf(product_name)
        dflt == clean_meta_description(finish_meta_single_sentence(DefaultMeta(name)), 160)
    IN  IF html = <<>> THEN Norm(<<P>> \o dflt \o <<EP>> \o DefaultBody(name))
        ELSE LET i    == FirstAfter(html, "p", 0)
                 j    == IF i = 0 THEN 0 ELSE FirstAfter(html, "/p", i)
                 grp  == IF j = 0 THEN <<>> ELSE SubSeq(html, i + 1, j - 1)
                 meta == clean_meta_description(
                             finish_meta_single_sentence(
                                 IF grp /= <<>> THEN grp ELSE DefaultMeta(name)), 160)
                 h1   == IF j = 0 THEN html
                         ELSE SubSeq(html, 1, i) \o meta \o SubSeq(html, j, Len(html))
                 e    == IF h1 /= <<>> /\ Head(h1).k = "p" THEN FirstAfter(h1, "/p", 1) ELSE 0
                 h2   == IF e = 0 THEN h1
                         ELSE DropOneSpaceBeforeDot(HalveSpaces(StripBanned(SubSeq(h1, 1, e))))
                              \o SubSeq(h1, e + 1, Len(h1))
             IN  clamp(Norm(h2), 2000)

-----------------------------------------------------------------------------
(* app/routers/brand_voice.py: the fallback generator *)

DigitKinds == {"dig", "1919", "1990"}
\* s.lower()
LowerText(s) == [i \in DOMAIN s |-> Tok(Fold(s[i].k), s[i].n)]

RECURSIVE Numbers(_, _)
\* re.findall(r'\d+(?:\.\d+)?', s) from token i on
Numbers(s, i) ==
    IF i > Len(s) THEN <<>>
    ELSE IF s[i].k \notin DigitKinds THEN Numbers(s, i + 1)
    ELSE IF i + 2 <= Len(s) /\ s[i + 1] = DOT /\ s[i + 2].k \in DigitKinds
         THEN <<SubSeq(s, i, i + 2)>> \o Numbers(s, i + 3)
    ELSE <<<<s[i]>>>> \o Numbers(s, i + 1)

\* "{nums[0]}(H) x {nums[1]}(W) x {nums[2]}(D) cm.", None below three numbers
format_dimensions(raw) ==
    IF ~Truthy(raw) THEN None
    ELSE LET nums == Numbers(TextOf(raw), 1)
         IN  IF Len(nums) >= 3
             THEN Str(nums[1] \o <<Tok("x", 1), W(1), Tok("x", 1), SP, W(1), SP>> \o nums[2] \o <<Tok("x", 1), W(1), Tok("x", 1), SP, W(1), SP>> \o nums[3] \o <<Tok("x", 1), W(1), Tok("x", 1), SP, W(2), DOT>>)
             ELSE None

\* re.match(r'^\d+(\.\d+)?$', s)
IsNumber(s) ==
    \/ Len(s) = 1 /\ s[1].k \in DigitKinds
    \/ Len(s) = 3 /\ s[1].k \in DigitKinds /\ s[2] = DOT /\ s[3].k \in DigitKinds

format_capacity(raw) ==
    IF ~Truthy(raw) THEN None
    ELSE LET t == Strip(LowerText(TextOf(raw)))
         IN  IF IsNumber(t) THEN Str(t \o <<Tok("ml", 2), DOT>>)
             ELSE Str(Norm(DropTrailing(t, {"dot"}) \o <<DOT>>))

\* specs.get(key) of a dict
SpecGet(specs, key) == IF key \in DOMAIN specs.v THEN specs.v[key] ELSE None

\* re.search(r'\b(\d{2}\s?cm)\b', name): the tokens matched, <<>> without a match
BladeIn(s) ==
    LET at(i) == /\ s[i] = Tok("dig", 2)
                 /\ (i = 1 \/ ~EndsWord(s[i - 1]))
                 /\ \/ /\ i + 1 <= Len(s) /\ s[i + 1].k = "cm"
                       /\ (i + 1 = Len(s) \/ ~StartsWord(s[i + 2]))
                    \/ /\ i + 2 <= Len(s) /\ s[i + 1] = SP /\ s[i + 2].k = "cm"
                       /\ (i + 2 = Len(s) \/ ~StartsWord(s[i + 3]))
    IN  IF \E i \in DOMAIN s : at(i)
        THEN LET i == CHOOSE j \in DOMAIN s : at(j) /\ \A h \in 1..(j - 1) : ~at(h)
             IN  SubSeq(s, i, IF s[i + 1].k = "cm" THEN i + 1 ELSE i + 2)
        ELSE <<>>

\* the fragments of the short block, by category
FallbackFrags(product, cat, specs, name) ==
    LET material == IF Truthy(SpecGet(specs, "material"))
                    THEN <<TextOf(SpecGet(specs, "material"))>> ELSE <<>>
    IN  CASE cat = Str(cKnivesCutlery) ->
               material
               \o (IF BladeIn(name.v) /= <<>> THEN <<BladeIn(name.v) \o <<SP, W(5)>>>> ELSE <<>>)
               \o (IF Truthy(product["guarantee"]) \/ Truthy(product["warranty"])
                   THEN <<<<W(8), SP, W(9)>>>> ELSE <<>>)
          [] cat = Str(cElectricals) ->
               (IF Truthy(SpecGet(specs, "powerW"))
                THEN <<Norm(TextOf(SpecGet(specs, "powerW")) \o <<W(1), SP, W(5)>>)>> ELSE <<>>)
               \o (IF Truthy(SpecGet(specs, "capacity"))
                   THEN <<TextOf(SpecGet(specs, "capacity")) \o <<SP, W(8)>>>> ELSE <<>>)
               \o <<<<W(4), SP, W(8)>>>>
          [] cat = Str(cDiningDrinkLiving) ->
               material
               \o (IF Truthy(SpecGet(specs, "capacity"))
                   THEN <<DropTrailing(format_capacity(SpecGet(specs, "capacity")).v, {"dot"})>>
                   ELSE <<>>)
               \o <<<<W(8), SP, W(3)>>>>
          [] OTHER ->
               material \o <<<<W(8), SP, W(3)>>, <<W(9), SP, W(7)>>>>

Para(t) == <<P>> \o t \o <<EP>>

\* the technical lines of the long block, in their order
TechSpecs(product, cat, specs) ==
    LET has(key) == spec_allowed(cat, key) /\ Truthy(SpecGet(specs, key))
        cap   == format_capacity(SpecGet(specs, "capacity"))
        dims  == format_dimensions(SpecGet(specs, "dimensions"))
        made  == made_in_line(product)
        guar  == guarantee_for(product)
        care  == Strip(TextOf(product["care"]))
    IN  (IF has("weight")
         THEN Para(<<W(6), Tok("x", 1), SP>> \o TextOf(SpecGet(specs, "weight")) \o <<DOT>>) ELSE <<>>)
        \o (IF has("capacity") /\ Truthy(cap) THEN Para(<<W(8), Tok("x", 1), SP>> \o cap.v) ELSE <<>>)
        \o (IF has("dimensions") /\ Truthy(dims) THEN Para(<<W(10), Tok("x", 1), SP>> \o dims.v) ELSE <<>>)
        \o (IF has("powerW")
            THEN Para(<<W(5), Tok("x", 1), SP>> \o TextOf(SpecGet(specs, "powerW")) \o <<W(1), DOT>>) ELSE <<>>)
        \o (IF spec_allowed(cat, "origin") /\ Truthy(made) THEN Para(made.v) ELSE <<>>)
        \o (IF spec_allowed(cat, "guarantee") /\ Truthy(guar) THEN Para(guar.v) ELSE <<>>)
        \o (IF spec_allowed(cat, "care") /\ Truthy(product["care"]) /\ care /= <<>>
            THEN Para(care) ELSE <<>>)

generate_fallback_descriptions(product, cat) ==
    LET product_name == Get(product, "name", Str(<<W(7)>>))
        specs == Get(product, "specifications", Dict(<<>>))
        name  == TextOf(product_name)
        meta  == clean_meta_description(finish_meta_single_sentence(DefaultMeta(name)), 160)
    IN  IF specs.t /= "dict" THEN Raise("AttributeError")
        ELSE IF cat = Str(cKnivesCutlery) /\ product_name.t /= "str" THEN Raise("TypeError")
        ELSE Ok([short_html |-> Str(build_short_html(
                                   FirstN(FallbackFrags(product, cat, specs, product_name), 3), 150)),
                 long_html  |-> Str(clamp(Norm(Para(meta) \o DefaultBody(name)
                                               \o TechSpecs(product, cat, specs)), 2000))])

-----------------------------------------------------------------------------
(* app/routers/brand_voice.py: the provider call and the endpoint *)

\* the first fenced block of the response, or the whole response, as JSON
parse_json_from_model(content) ==
    LET body  == Strip(IF Truthy(content) THEN content.v ELSE <<>>)
        a     == FirstAfter(body, "fence", 0)
        b     == IF a = 0 THEN 0 ELSE FirstAfter(body, "fence", a)
        inner == SubSeq(body, a + 1, b - 1)
        rest  == IF inner /= <<>> /\ inner[1].k \in {"json", "JSON"} THEN Tail(inner) ELSE inner
    IN  json_loads(IF b > 0 THEN Strip(rest) ELSE body)

\* None, or the dict with the two fields of the parsed response
generate_with_openai(the_client, o) ==
    IF the_client = "None" THEN None
    ELSE IF IsOpenAIError(o) THEN None
    ELSE IF ~Truthy(o.content) THEN None
    ELSE LET parsed == parse_json_from_model(o.content)
         IN  IF ~parsed.ok \/ parsed.v.t /= "dict" THEN None
             ELSE Dict([short_html |-> Get(parsed.v.v, "short_html", Str(<<>>)),
                        long_html  |-> Get(parsed.v.v, "long_html", Str(<<>>))])

\* (x or '').strip() of the coercers: a truthy value that is no str has no strip()
OrEmpty(x) == IF Truthy(x) THEN x.v ELSE <<>>

\* "The {product_name} is designed for everyday home use."
HomeUseMeta(name) == <<W(3), SP>> \o name \o <<SP, W(2), SP, W(8), SP, W(3), SP, W(8), SP, W(4), SP, W(3), DOT>>

\* the bundle of the endpoint's except branch
PlaceholderBundle ==
    [metaDescription  |-> Str(<<W(7), SP, W(11), SP, W(10), SP, W(6), DOT>>),
     shortDescription |-> Str(<<P>> \o <<W(10), SP, W(5), SP, W(8)>> \o <<EP>>),
     longDescription  |-> Str(<<P>> \o <<W(7), SP, W(11), SP, W(10), SP, W(6), DOT>> \o <<EP>>)]

\* ProcessedProduct(...): name and brand are str, specifications is a dict
ProcessedProduct(name, brand, cat, specifications, descriptions) ==
    IF name.t /= "str" \/ brand.t /= "str" \/ specifications.t /= "dict"
    THEN Raise("ValidationError")
    ELSE Ok([name |-> name, brand |-> brand, category |-> cat,
             specifications |-> specifications, descriptions |-> descriptions])

\* request.category or "General", normalised
TopCat(req) ==
    normalise_category(IF Truthy(req.category) THEN req.category ELSE Str(cGeneral),
                       Str(cGeneral))

\* a dict is truthy when it has a key
HasKeys(d) == \E k \in DOMAIN d : d[k] /= Missing

\* products_to_process, categories normalised; <<>> when the request has none
ProductsToProcess(req) ==
    LET chosen == IF Truthy(req.products) THEN req.products.v
                  ELSE IF req.productData /= None /\ HasKeys(req.productData.v)
                       THEN <<req.productData.v>>
                  ELSE <<>>
    IN  [i \in DOMAIN chosen |->
            [chosen[i] EXCEPT !["category"] =
                normalise_category(Get(chosen[i], "category", None), TopCat(req))]]

\* the meta description read back from the first paragraph of the long text
MetaOf(long_html, product_name) ==
    LET i == FirstAfter(long_html, "p", 0)
        j == IF i = 0 THEN 0 ELSE FirstAfter(long_html, "/p", i)
    IN  clean_meta_description(
            finish_meta_single_sentence(
                IF j > 0 THEN SubSeq(long_html, i + 1, j - 1)
                ELSE HomeUseMeta(TextOf(product_name))), 160)

\* the end of the try body: the product is appended once the model class took it
RtrOutcome(made, how) ==
    IF made.ok THEN [ok |-> TRUE, v |-> made.v, how |-> how]
    ELSE [ok |-> FALSE, err |-> made.err, how |-> how]

\* "Build processed product": the three fields are clamped once more
RtrBuild(product, product_name, product_category, short_html, long_html, how) ==
    RtrOutcome(
        ProcessedProduct(product_name, Get(product, "brand", Str(<<W(7)>>)),
            product_category, Get(product, "specifications", Dict(<<>>)),
            [metaDescription  |-> Str(clamp(MetaOf(long_html, product_name), 160)),
             shortDescription |-> Str(clamp(short_html, 150)),
             longDescription  |-> Str(clamp(long_html, 2000))]),
        how)

\* "Validate and coerce": d is the bundle in use, or the exception of the fallback
RtrCoerce(product, product_name, product_category, d, how) ==
    IF ~d.ok THEN [ok |-> FALSE, err |-> d.err, how |-> how]
    ELSE IF (Truthy(d.v.short_html) /\ d.v.short_html.t /= "str")
            \/ (Truthy(d.v.long_html) /\ d.v.long_html.t /= "str")
         THEN [ok |-> FALSE, err |-> "AttributeError", how |-> how]
    ELSE RtrBuild(product, product_name, product_category,
             coerce_short_html(OrEmpty(d.v.short_html), product_category),
             coerce_long_html(OrEmpty(d.v.long_html), product_name, product_category),
             how)

\* "Fallback if OpenAI fails": no bundle, or a bundle with a falsy field
RtrDescribe(product, product_name, product_category, generated) ==
    IF ~Truthy(generated) \/ ~Truthy(generated.v.short_html)
       \/ ~Truthy(generated.v.long_html)
    THEN RtrCoerce(product, product_name, product_category,
             generate_fallback_descriptions(product, product_category), "fallback")
    ELSE RtrCoerce(product, product_name, product_category, Ok(generated.v), "generated")

\* the try body of the endpoint's loop for one product and one provider outcome
RtrTry(product, top_cat, the_client, o) ==
    RtrDescribe(product, Get(product, "name", Str(<<W(7)>>)),
        normalise_category(Get(product, "category", None), top_cat),
        generate_with_openai(the_client, o))

\* the except branch of the loop: the placeholder product, which is validated too
RtrCatch(product) ==
    ProcessedProduct(Get(product, "name", Str(<<W(7), SP, W(7)>>)),
                     Get(product, "brand", Str(<<>>)),
                     normalise_category(Get(product, "category", None), Str(cGeneral)),
                     Get(product, "specifications", Dict(<<>>)),
                     PlaceholderBundle)

-----------------------------------------------------------------------------
(* Inputs *)

MaxProducts == 2      \* products in a batch
MaxLate     == 1      \* seconds a sleep may return late

BaseProduct == [k \in ProductKeys |-> Missing]
word == Str(<<W(4)>>)

prodPan ==
    [BaseProduct EXCEPT !["name"] = Str(<<W(3)>>), !["brand"] = Str(<<W(5)>>),
        !["specifications"] = Dict([k \in {"material", "powerW", "ean"} |-> word])]
prodNoSpecs ==
    [BaseProduct EXCEPT !["name"] = Str(<<W(5)>>), !["specifications"] = None]

GoodShort == <<P, W(5), SP, W(5), BR, W(4), SP, W(6), BR, W(8), SP, W(3), EP>>
GoodLong  == <<P, W(60), SP, W(60), SP, W(32), DOT, EP, P, W(40), DOT, EP>>
WideShort == <<P, W(60), SP, W(60), BR, W(20), SP, W(20), BR, W(8), SP, W(3), EP>>
WideLong  == <<P, W(150), DOT, EP, P, W(1900), DOT, EP>>
NameOnlyShort == <<Tok("Dorset", 6)>>

prodKettle ==
    [BaseProduct EXCEPT !["name"] = Str(<<W(6)>>), !["isNonStick"] = Bool(TRUE),
        !["specifications"] = Dict([k \in {"capacity", "price"} |-> word])]
SvcProducts   == {prodPan, prodKettle, prodNoSpecs}
SvcCategories == {Str(cElectricals), Str(cClothing)}
SvcOutcomes ==
    {[kind |-> "APIError"], [kind |-> "APITimeoutError"],
     [kind |-> "content", content |-> Str(<<>>)],
     [kind |-> "content", content |-> Str(<<W(5), SP, W(8)>>)],
     [kind |-> "content", content |-> Str(<<FENCE, TAGjson, SP, BODY(Obj(Str(GoodShort), Str(GoodLong))), SP, FENCE>>)],
     [kind |-> "content", content |-> Str(<<BODY(Obj(Str(NameOnlyShort), Str(GoodLong)))>>)],
     [kind |-> "content", content |-> Str(<<BODY(Obj(Str(WideShort), Str(WideLong)))>>)],
     [kind |-> "content", content |-> Str(<<BODY(Obj(Num(5), Str(GoodLong)))>>)]}

\* what the try body makes of each outcome of the external call
SvcResults == [o \in SvcOutcomes |-> TryBody(o)]

Batches(S) == UNION {[1..n -> S] : n \in 0..MaxProducts}

\* the endpoint's inputs
FourShort == <<P, W(5), BR, W(4), BR, W(6), BR, W(3), SP, W(4), DOT, EP>>
ShortLong == <<P, W(5), DOT, EP, P, W(40), DOT, EP>>
prodKnife ==
    [BaseProduct EXCEPT !["name"] = Str(<<W(4), SP, Tok("dig", 2), Tok("cm", 2)>>),
        !["category"] = Str(<<"k", "n", "i", "v", "e", "s">>), !["origin"] = Str(<<"U", "k", "r", "a", "i", "n", "e">>),
        !["guarantee"] = Str(<<Tok("dig", 1), SP, W(5)>>),
        !["specifications"] = Dict([k \in {"material", "bladeLength", "sku"} |-> word])]
RtrProducts == {prodPan, prodKettle, prodNoSpecs, prodKnife}
RtrCategories == {None, Str(cElectricals), Str(<<"c", "o", "o", "k", "w", "a", "r", "e">>)}
RtrRequests ==
    [products    : {None} \cup {List(b) : b \in Batches(RtrProducts)},
     productData : {None, Dict(prodKettle)},
     category    : RtrCategories]
RtrOutcomes ==
    SvcOutcomes \cup
    {[kind |-> "content", content |-> None],
     [kind |-> "content", content |-> Str(<<W(4), SP, FENCE, TAGJSON, SP,
                                            BODY(Obj(Str(FourShort), Str(ShortLong))), FENCE>>)],
     [kind |-> "content", content |-> Str(<<BODY(Obj(Missing, Str(GoodLong)))>>)],
     [kind |-> "content", content |-> Str(<<BODY(List(<<>>))>>)]}

\* inputs of the coercers and parsers
RECURSIVE Repeat(_, _, _)
\* n copies of part with sep between them
Repeat(part, sep, n) ==
    IF n = 0 THEN <<>> ELSE IF n = 1 THEN part ELSE part \o sep \o Repeat(part, sep, n - 1)
MaxFrags == 4         \* fragments of a drawn short block
\* a short block of nf fragments of nw words each
MkShort(nf, nw, dotted, wrapped) ==
    LET inner == Repeat(Repeat(<<W(4)>>, <<SP>>, nw), <<BR>>, nf)
                 \o (IF dotted THEN <<DOT>> ELSE <<>>)
    IN  IF wrapped THEN <<P>> \o inner \o <<EP>> ELSE inner
ShortInputs ==
    {MkShort(nf, nw, d, w) : nf \in 1..MaxFrags, nw \in {1, 2, 9}, d \in BOOLEAN, w \in BOOLEAN}
    \cup {<<>>, GoodShort, WideShort, FourShort}
\* a long block whose first paragraph is one word of m letters
MkLong(m, dotted, wrapped) ==
    LET first == <<W(m)>> \o (IF dotted THEN <<DOT>> ELSE <<>>)
    IN  IF wrapped THEN <<P>> \o first \o <<EP, P, W(40), DOT, EP>> ELSE first
\* long blocks that name retail terms in the first paragraph and in a later one
RetailFirst == <<P, Tok("shop", 4), SP, W(3), SP, W(6), SP, Tok("price", 5), DOT, EP>>
RetailLater == <<P, W(5), SP, Tok("buy", 3), SP, W(4), SP, Tok("delivery", 8), DOT, EP>>
RetailLongs ==
    {RetailFirst \o RetailLater,
     <<P, W(5), SP, W(4), DOT, EP>> \o RetailLater,
     <<W(4), SP>> \o RetailFirst \o RetailLater,
     <<BR>> \o RetailFirst,
     <<P, W(2), SP, Tok("order", 5), DOT, SP, W(4), SP, Tok("shipping", 8), EP>> \o RetailLater}
LongInputs ==
    [long_html    : {MkLong(m, d, w) : m \in {5, 149, 150, 159, 160, 200},
                                       d \in BOOLEAN, w \in BOOLEAN} \cup {<<>>, GoodLong}
                    \cup RetailLongs,
     product_name : {Str(<<W(3)>>), Str(<<W(150)>>)}]
\* a product with every specification and line the fallback can print
prodScales ==
    [BaseProduct EXCEPT !["name"] = Str(<<W(6)>>),
        !["origin"] = Str(<<"U", "K">>),
        !["guarantee"] = Str(<<Tok("dig", 1), SP, W(4), SP, W(9), DOT>>),
        !["care"] = Str(<<W(4), SP, W(4), SP, W(4)>>),
        !["specifications"] =
            Dict([k \in {"weight", "capacity", "dimensions", "powerW"} |->
                    CASE k = "weight"     -> Str(<<Tok("dig", 3), W(1)>>)
                      [] k = "capacity"   -> Str(<<Tok("dig", 3)>>)
                      [] k = "dimensions" -> Str(<<Tok("dig", 2), SP, Tok("x", 1), SP, Tok("dig", 2),
                                                   SP, Tok("x", 1), SP, Tok("dig", 2)>>)
                      [] OTHER            -> Str(<<Tok("dig", 4)>>)])]
\* a product with a warranty and a place of making, and too few dimensions
prodMug ==
    [BaseProduct EXCEPT !["name"] = Str(<<W(3)>>),
        !["madeIn"] = Str(<<"W", "a", "l", "e", "s">>),
        !["warranty"] = Str(<<Tok("dig", 2), SP, W(5)>>),
        !["care"] = Str(<<SP>>),
        !["specifications"] =
            Dict([k \in {"capacity", "dimensions", "weight"} |->
                    CASE k = "capacity"   -> Str(<<Tok("dig", 1), DOT, Tok("dig", 1), Tok("l", 1)>>)
                      [] k = "dimensions" -> Str(<<Tok("dig", 2), Tok("cm", 2)>>)
                      [] OTHER            -> Str(<<>>)])]
\* a product whose care text alone nearly fills the long block
prodLongCare ==
    [BaseProduct EXCEPT !["name"] = Str(<<W(6)>>),
        !["guarantee"] = Str(<<Tok("dig", 1), SP, W(5)>>),
        !["care"] = Str(Repeat(<<W(99)>>, <<SP>>, 19)),
        !["specifications"] = Dict([k \in {"weight"} |-> Str(<<Tok("dig", 3), W(1)>>)])]
FallbackInputs ==
    [product  : RtrProducts \cup {prodScales, prodMug, prodLongCare},
     category : {Str(c) : c \in ALLOWED_CATEGORIES}]
Payloads ==
    {Invalid, Num(5), List(<<>>), Obj(Str(GoodShort), Str(GoodLong)),
     Obj(Missing, Str(GoodLong)), Obj(Str(GoodShort), Missing),
     Obj(Str(<<>>), Str(GoodLong)), Obj(Num(5), Str(GoodLong)),
     Obj(Str(GoodShort), List(<<>>))}
\* a payload alone, or inside a fence with or without a tag
RawInputs ==
    {<<BODY(v)>> : v \in Payloads}
    \cup {<<FENCE, SP, BODY(v), SP, FENCE>> : v \in Payloads}
    \cup {<<FENCE, TAGjson, SP, BODY(v), SP, FENCE>> : v \in Payloads}
    \cup {<<FENCE, TAGJSON, SP, BODY(v), SP, FENCE>> : v \in Payloads}
\* category texts: canonical names, their lower and upper case, synonyms alone and
\* inside a longer text, padded, empty and unrecognised names
CatStrings ==
    LET names == ALLOWED_CATEGORIES \cup {cSeasonal}
        syns  == {synonyms[i][1] : i \in DOMAIN synonyms}
    IN  names \cup {Lower(c) : c \in names} \cup {Upper(c) : c \in names}
        \cup syns \cup {Upper(s) : s \in syns}
        \cup {<<" ">> \o s \o <<" ", "s", "e", "t">> : s \in syns}
        \cup {<<" ">> \o cClothing \o <<" ">>, <<>>, <<" ">>, <<"g", "a", "r", "d", "e", "n">>}
CategoryInputs == {None, Num(5)} \cup {Str(s) : s \in CatStrings}
SpecsInputs ==
    {Dict([k \in {"material", "powerW", "programs", "price"} |-> word]),
     Dict([k \in {"capacity", "bladeLength"} |-> word])}
\* items for the guarantee line: the flag, a guarantee text with no, one or two
\* final periods or blank, and a warranty text
GuaranteeInputs ==
    {[BaseProduct EXCEPT !["isNonStick"] = f, !["guarantee"] = g, !["warranty"] = w] :
        f \in {Missing, Bool(TRUE), Bool(FALSE)},
        g \in {Missing, Str(<<>>), Str(<<SP>>), Str(<<Tok("dig", 1), SP, W(5)>>),
               Str(<<Tok("dig", 1), SP, W(5), DOT, SP>>),
               Str(<<Tok("dig", 1), SP, W(5), Tok("dot", 2)>>)},
        w \in {Missing, Str(<<Tok("dig", 2), SP, W(6)>>), Str(<<W(5), SP, W(4), BANG>>)}}
\* items for the origin line: places in and outside the United Kingdom
OriginInputs ==
    {[BaseProduct EXCEPT !["madeIn"] = m, !["origin"] = o] :
        m \in {Missing, Str(<<>>), Str(<<"E", "n", "g", "l", "a", "n", "d">>),
               Str(<<"C", "h", "i", "n", "a">>)},
        o \in {Missing, Str(<<>>), Str(<<"U", "K">>), Str(<<"U", "k", "r", "a", "i", "n", "e">>),
               Str(<<"F", "r", "a", "n", "c", "e">>),
               Str(<<" ", "S", "c", "o", "t", "l", "a", "n", "d">>),
               Str(<<"u", "n", "i", "t", "e", "d", " ", "k", "i", "n", "g", "d", "o", "m">>)}}
\* meta descriptions around the limits of the validator, and keyword lists
kwSteel == <<Tok("stainless", 9), SP, Tok("steel", 5)>>       \* "stainless steel"
kwSafe  == <<Tok("dishwasher", 10), SP, Tok("safe", 4)>>      \* "dishwasher safe"
kwShop  == <<Tok("shop", 4)>>                                 \* a banned keyword
kwLong  == kwSteel \o <<SP>> \o kwSafe \o <<SP>> \o kwSteel     \* 47 characters
\* n words of seven letters: 8n - 1 characters
Sentence(n) == Repeat(<<W(7)>>, <<SP>>, n)
MetaInputs ==
    {<<>>,
     Sentence(11) \o <<SP, W(1), DOT>>,                \* 90 characters
     <<SP>> \o Sentence(11) \o <<SP, W(1), SP>>,
     Sentence(11) \o <<SP>> \o kwSteel \o <<DOT>>,      \* a keyword is present
     Sentence(5) \o <<DOT, SP>> \o Sentence(5) \o <<DOT>>,
     Sentence(13) \o <<BANG>>,
     Sentence(18) \o <<SP, W(4), DOT>>,                \* 149 characters
     Sentence(19),                                    \* 151 characters
     Sentence(20),                                    \* 159 characters
     Sentence(20) \o <<DOT>>,                          \* 160 characters
     Sentence(19) \o <<SP, W(8)>>,                     \* 160 characters, no period
     Sentence(19) \o <<SP, W(7), BANG>>,               \* 160 characters, ends in "!"
     Sentence(25),                                    \* 199 characters
     Sentence(19) \o <<SP, W(40)>>,                    \* last blank at 151
     <<W(200)>>,                                      \* no blank at all
     Sentence(16) \o <<DOT, SP>> \o Sentence(10),       \* a period at 127
     Sentence(8) \o <<DOT, SP>> \o Sentence(17) \o <<DOT>>}
KeywordInputs ==
    {<<>>, <<kwSteel, kwSafe>>, <<kwShop, kwSafe>>, <<kwShop>>, <<kwLong, kwSteel>>,
     <<kwSteel, kwSafe, kwLong, kwSafe>>}
MetaCalls == [meta_description : MetaInputs, keywords : KeywordInputs]
\* texts for the phrase stripper: a forbidden phrase in its spellings, alone
\* and inside a sentence
PhraseSpellings ==
    {<<Tok("Since", 5), SP, Tok("1919", 4)>>,
     <<Tok("Since", 5), BR, Tok("1919", 4)>>,
     <<Tok("since", 5), Tok("sp", 2), NBSP, Tok("1990", 4)>>,
     <<Tok("Since", 5), SP, Tok("Dorset", 6), SP, Tok("1919", 4)>>,
     <<Tok("Harts", 5), BR, Tok("of", 2), SP, Tok("Stur", 4)>>,
     <<Tok("Harts", 5), SP, Tok("DORSET", 6), BR, Tok("of", 2), SP, Tok("Stur", 4)>>,
     <<Tok("DORSET", 6)>>,
     <<Tok("family-run", 10)>>,
     <<Tok("family", 6), SP, Tok("run", 3)>>,
     <<Tok("Imported", 8), SP, Tok("from", 4), SP, W(5)>>,
     <<W(6)>>}
StripInputs ==
    {before \o phrase \o after :
        before \in {<<>>, <<W(4), SP>>, <<W(4), DOT, SP>>},
        phrase \in PhraseSpellings,
        after  \in {<<>>, <<DOT>>, <<SP, W(3), DOT>>, <<COMMA, SP, W(3), DOT>>}}
\* fields for the sanitizer: the stripper's texts, and texts with markup that
\* sanitize_html removes
SanitizeInputs ==
    StripInputs \cup
    {<<W(3), SP, SCRIPT, W(2), ESCRIPT, SP, Tok("Dorset", 6), DOT>>,
     <<Tok("Since", 5), SCRIPT, W(2), ESCRIPT, Tok("1919", 4)>>,
     <<W(3), SP, ONATTR, SP, W(4), DOT>>,
     <<JS, W(3), SP, Tok("dot", 2)>>}
\* contents for normalize_paragraphs: paragraphs marked by tags, breaks and
\* blank lines, and markup cut short before its ">"
PATTR    == Tok("pattr", 13)     \* <p class="x">
UNCLOSED == Tok("<p", 2)         \* "<p" with no ">" of its own
NL       == Tok("nl", 1)         \* a newline
ParagraphInputs ==
    {<<>>, <<W(3)>>,
     <<P, W(3), EP, P, W(4), DOT, EP>>,
     <<P, W(3), EP, SP, NL, P, W(4), EP>>,
     <<PATTR, W(3), EP, P, W(4), EP>>,
     <<W(3), BR, BR, W(4)>>,
     <<W(3), BR, NL, BR, W(4)>>,
     <<W(3), BR, W(4), BRS, BRS, BRS, W(2)>>,
     <<W(3), BR, NL, W(4)>>,
     <<W(3), Tok("nl", 2), SP, W(4), NL, W(2)>>,
     <<SP, W(3), SP, Tok("nl", 3), W(4), SP>>,
     <<P, EP, BR>>,
     <<W(3), SP, UNCLOSED>>,
     <<P, W(3), EP, P, W(4), SP, UNCLOSED, EP>>,
     <<UNCLOSED, SP, W(3), BR, W(4)>>}
NormalizeCalls == [content : ParagraphInputs, prefer_p_tags : BOOLEAN]
FnNames == {"coerce_short_html", "coerce_long_html", "generate_fallback_descriptions",
            "parse_openai_response", "parse_json_from_model",
            "normalise_category", "spec_allowed", "filter_specifications",
            "guarantee_for", "made_in_line", "validate_and_fix_meta",
            "strip_forbidden_phrases", "sanitize_descriptions",
            "normalize_paragraphs"}
FnInputs(f) ==
    CASE f = "coerce_short_html" -> ShortInputs
      [] f = "normalise_category" ->
            [cat : CategoryInputs, fallback : {Str(cGeneral), Str(cElectricals)}]
      [] f = "spec_allowed" ->
            [cat : CategoryInputs, key : {"material", "powerW", "guarantee", "price"}]
      [] f = "filter_specifications" -> [specs : SpecsInputs, cat : CategoryInputs]
      [] f = "guarantee_for" -> GuaranteeInputs
      [] f = "made_in_line" -> OriginInputs
      [] f = "validate_and_fix_meta" -> MetaCalls
      [] f = "strip_forbidden_phrases" -> StripInputs
      [] f = "sanitize_descriptions" -> SanitizeInputs
      [] f = "normalize_paragraphs" -> NormalizeCalls
      [] f = "coerce_long_html"  -> LongInputs
      [] f = "generate_fallback_descriptions" -> FallbackInputs
      [] OTHER -> RawInputs

\* every product the loop can meet, with its category normalised
TopCats == {TopCat(r) : r \in RtrRequests}
LoopProducts ==
    {[p EXCEPT !["category"] = normalise_category(Get(p, "category", None), tc)] :
        p \in RtrProducts, tc \in TopCats}
\* what the try body makes of each product and outcome of the external call
RtrResults ==
    [p \in LoopProducts, tc \in TopCats, c \in {"None", "set"}, o \in RtrOutcomes |->
        RtrTry(p, tc, c, o)]
RtrCaught == [p \in LoopProducts |-> RtrCatch(p)]

NoOut == [t |-> "noout"]
RtrIdle ==
    /\ openai_client = "None" /\ request = None /\ products_to_process = <<>>
    /\ processed_products = <<>>
    /\ ridx = 0 /\ rpc = "off" /\ sent = <<>> /\ trail = <<>> /\ http_status = 0
SvcIdle ==
    /\ api_key = FALSE /\ client = "None" /\ products = <<>> /\ category = None
    /\ enhanced_products = <<>> /\ idx = 0 /\ pc = "off" /\ attempt = 0
    /\ last_error = None /\ prompt = None /\ now = 0 /\ wake_at = 0
    /\ calls = <<>> /\ sleeps = <<>> /\ raised = None /\ last_cause = None
FnIdle == fn = "off" /\ arg = None /\ out = NoOut
JobIdle ==
    /\ JOBS = {} /\ job = <<>> /\ task = <<>> /\ clock = 0 /\ polled = None
    /\ frame = None

-----------------------------------------------------------------------------
(* services.brand_voice.generate *)

InitSvc ==
    /\ api_key \in BOOLEAN
    /\ client = (IF api_key THEN "set" ELSE "None")   \* initialize_client() ran on import
    /\ products \in Batches(SvcProducts)
    /\ category \in SvcCategories
    /\ enhanced_products = <<>> /\ idx = 0 /\ pc = "idle" /\ attempt = 0
    /\ last_error = None /\ prompt = None /\ now = 0 /\ wake_at = 0
    /\ calls = <<>> /\ sleeps = <<>> /\ raised = None /\ last_cause = None
    /\ RtrIdle /\ FnIdle /\ JobIdle

\* generate is entered: the client is initialized if it is None
initialize_client == IF api_key THEN "set" ELSE client

SvcGenerate ==
    /\ pc = "idle"
    /\ client' = IF client = "None" THEN initialize_client ELSE client
    /\ enhanced_products' = <<>> /\ idx' = 1 /\ pc' = "loop"
    /\ UNCHANGED <<api_key, products, category, attempt, last_error, prompt, now,
                   wake_at, calls, sleeps, raised, last_cause, rtrVars, fnVars, jobVars>>

\* the except branch of generate, for the exception e of generate_single_product
SvcCatch(prods, e) ==
    LET marked == WithErrorMarker(prods[idx], e)
    IN  /\ products' = [prods EXCEPT ![idx] = marked]
        /\ enhanced_products' = Append(enhanced_products, marked)
        /\ raised' = e
        /\ idx' = idx + 1 /\ pc' = "loop"

GenerationError(msg, cause) == [msg |-> msg, cause |-> cause]

\* an iteration of the for loop begins: generate_single_product up to its retry loop
SvcEnter ==
    /\ pc = "loop" /\ idx <= Len(products)
    /\ now' = 0 /\ wake_at' = 0 /\ calls' = <<>> /\ sleeps' = <<>> /\ last_error' = None
    /\ last_cause' = None
    /\ LET product  == products[idx]
           filtered == filter_specifications(Get(product, "specifications", Dict(<<>>)), category)
           kept     == [product EXCEPT !["specifications"] = filtered.v]
       IN  IF client = "None"
           THEN /\ SvcCatch(products, GenerationError("OpenAI client not initialized", None))
                /\ UNCHANGED <<attempt, prompt>>
           ELSE IF ~filtered.ok
           THEN /\ SvcCatch(products, GenerationError(filtered.err, None))
                /\ UNCHANGED <<attempt, prompt>>
           ELSE /\ products' = [products EXCEPT ![idx] = kept]
                /\ prompt' = build_prompt(kept, category)
                /\ attempt' = 1 /\ pc' = "attempt" /\ raised' = None
                /\ UNCHANGED <<enhanced_products, idx>>
    /\ UNCHANGED <<api_key, client, category, rtrVars, fnVars, jobVars>>

\* one pass of the retry loop: the external call and what the try/except does with it
SvcAttempt ==
    /\ pc = "attempt"
    /\ \E o \in SvcOutcomes :
        LET r == SvcResults[o]
        IN  /\ calls' = Append(calls, [attempt |-> attempt, at |-> now, prompt |-> prompt,
                                       failed |-> ~r.ok])
            /\ last_cause' = (IF r.ok THEN None ELSE Exc(r.err))
            /\ IF r.ok
               THEN /\ products' = [products EXCEPT ![idx]["descriptions"] = Dict(r.v)]
                    /\ enhanced_products' =
                          Append(enhanced_products,
                                 [products[idx] EXCEPT !["descriptions"] = Dict(r.v)])
                    /\ idx' = idx + 1 /\ pc' = "loop" /\ raised' = None
                    /\ UNCHANGED <<last_error, wake_at, sleeps>>
               ELSE /\ last_error' = Exc(r.err)
                    /\ IF MayRetry(attempt)
                       THEN /\ wake_at' = now + wait_time(attempt)
                            /\ sleeps' = Append(sleeps, [after |-> attempt,
                                                         secs |-> wait_time(attempt)])
                            /\ pc' = "sleep"
                            /\ UNCHANGED <<products, enhanced_products, idx, raised>>
                       ELSE /\ SvcCatch(products,
                                   GenerationError("failed after retries", Exc(r.err)))
                            /\ UNCHANGED <<wake_at, sleeps>>
    /\ UNCHANGED <<api_key, client, category, attempt, prompt, now, rtrVars, fnVars, jobVars>>

\* a second passes while asyncio.sleep is pending
SvcTick ==
    /\ pc = "sleep" /\ now < wake_at + MaxLate
    /\ now' = now + 1
    /\ UNCHANGED <<api_key, client, products, category, enhanced_products, idx, pc,
                   attempt, last_error, prompt, wake_at, calls, sleeps, raised,
                   last_cause, rtrVars, fnVars, jobVars>>

\* asyncio.sleep returns, the for loop goes to the next attempt
SvcWake ==
    /\ pc = "sleep" /\ now >= wake_at
    /\ attempt' = attempt + 1 /\ pc' = "attempt"
    /\ UNCHANGED <<api_key, client, products, category, enhanced_products, idx,
                   last_error, prompt, now, wake_at, calls, sleeps, raised,
                   last_cause, rtrVars, fnVars, jobVars>>

\* generate returns enhanced_products
SvcReturn ==
    /\ pc = "loop" /\ idx > Len(products)
    /\ pc' = "returned"
    /\ UNCHANGED <<api_key, client, products, category, enhanced_products, idx,
                   attempt, last_error, prompt, now, wake_at, calls, sleeps, raised,
                   last_cause, rtrVars, fnVars, jobVars>>

NextSvc == SvcGenerate \/ SvcEnter \/ SvcAttempt \/ SvcTick \/ SvcWake \/ SvcReturn
SpecSvc == InitSvc /\ [][NextSvc]_vars

SpecSvcFair == SpecSvc /\ WF_vars(NextSvc)

-----------------------------------------------------------------------------
(* routers.brand_voice.generate_brand_voice *)

InitRtr ==
    /\ openai_client \in {"None", "set"}       \* set on import when the key is there
    /\ request \in RtrRequests
    /\ products_to_process = <<>> /\ processed_products = <<>>
    /\ ridx = 0 /\ rpc = "idle" /\ sent = <<>> /\ trail = <<>> /\ http_status = 0
    /\ SvcIdle /\ FnIdle /\ JobIdle

\* the endpoint is entered: the products are chosen and their categories normalised
RtrEnter ==
    /\ rpc = "idle"
    /\ IF ProductsToProcess(request) = <<>>
       THEN /\ rpc' = "done" /\ http_status' = 400
            /\ UNCHANGED <<products_to_process, ridx>>
       ELSE /\ products_to_process' = ProductsToProcess(request)
            /\ ridx' = 1 /\ rpc' = "loop"
            /\ UNCHANGED http_status
    /\ processed_products' = <<>>
    /\ UNCHANGED <<openai_client, request, sent, trail, svcVars, fnVars, jobVars>>

\* one pass of the for loop: the try body and, when it raises, the except branch;
\* an exception of the except branch leaves the loop for the outer handler
RtrProduct ==
    /\ rpc = "loop" /\ ridx <= Len(products_to_process)
    /\ \E o \in RtrOutcomes :
        LET product == products_to_process[ridx]
        IN  \E r \in {RtrResults[product, TopCat(request), openai_client, o]},
               c \in {RtrCaught[product]} :
            /\ sent' = (IF openai_client = "set" THEN Append(sent, product) ELSE sent)
            /\ IF r.ok
               THEN /\ processed_products' = Append(processed_products, r.v)
                    /\ trail' = Append(trail, r.how)
                    /\ ridx' = ridx + 1
                    /\ UNCHANGED <<rpc, http_status>>
               ELSE IF c.ok
               THEN /\ processed_products' = Append(processed_products, c.v)
                    /\ trail' = Append(trail, "error")
                    /\ ridx' = ridx + 1
                    /\ UNCHANGED <<rpc, http_status>>
               ELSE /\ rpc' = "done" /\ http_status' = 500
                    /\ UNCHANGED <<processed_products, trail, ridx>>
    /\ UNCHANGED <<openai_client, request, products_to_process, svcVars, fnVars, jobVars>>

\* the loop is over: BrandVoiceResponse(success=True, products=processed_products)
RtrReturn ==
    /\ rpc = "loop" /\ ridx > Len(products_to_process)
    /\ rpc' = "done" /\ http_status' = 200
    /\ UNCHANGED <<openai_client, request, products_to_process, processed_products,
                   ridx, sent, trail, svcVars, fnVars, jobVars>>

NextRtr == RtrEnter \/ RtrProduct \/ RtrReturn
SpecRtr == InitRtr /\ [][NextRtr]_vars

-----------------------------------------------------------------------------
(* The coercers, the fallback generator and the parsers, applied to drawn inputs *)

InitFn ==
    /\ fn \in FnNames /\ arg \in FnInputs(fn) /\ out = NoOut
    /\ SvcIdle /\ RtrIdle /\ JobIdle

Apply(f, result) ==
    /\ fn = f /\ out = NoOut
    /\ out' = result
    /\ UNCHANGED <<fn, arg, svcVars, rtrVars, jobVars>>

ApplyCoerceShort == Apply("coerce_short_html", Ok(coerce_short_html(arg, Str(cGeneral))))
ApplyCoerceLong  ==
    Apply("coerce_long_html",
          Ok(coerce_long_html(arg.long_html, arg.product_name, Str(cGeneral))))
ApplyFallback    ==
    Apply("generate_fallback_descriptions",
          generate_fallback_descriptions(arg.product, arg.category))
ApplyParseService == Apply("parse_openai_response", parse_openai_response(arg))
ApplyParseRouter  == Apply("parse_json_from_model", parse_json_from_model(Str(arg)))

ApplyNormalise    ==
    Apply("normalise_category", Ok(normalise_category(arg.cat, arg.fallback)))
ApplySpecAllowed  == Apply("spec_allowed", Ok(Bool(spec_allowed(arg.cat, arg.key))))
ApplyFilter       ==
    Apply("filter_specifications", filter_specifications(arg.specs, arg.cat))
ApplyGuarantee    == Apply("guarantee_for", Ok(guarantee_for(arg)))
ApplyMadeIn       == Apply("made_in_line", Ok(made_in_line(arg)))
ApplyValidateMeta ==
    Apply("validate_and_fix_meta",
          Ok(validate_and_fix_meta(arg.meta_description, <<W(5)>>, arg.keywords)))
ApplyStrip        == Apply("strip_forbidden_phrases", Ok(Str(strip_forbidden_phrases(arg))))
ApplySanitize     == Apply("sanitize_descriptions", SanitizeField(Str(arg)))
ApplyNormalizeParagraphs ==
    Apply("normalize_paragraphs",
          Ok(Str(normalize_paragraphs(arg.content, arg.prefer_p_tags))))

NextFn == ApplyCoerceShort \/ ApplyCoerceLong \/ ApplyFallback
          \/ ApplyParseService \/ ApplyParseRouter
          \/ ApplyNormalise \/ ApplySpecAllowed \/ ApplyFilter
          \/ ApplyGuarantee \/ ApplyMadeIn \/ ApplyValidateMeta
          \/ ApplyStrip \/ ApplySanitize \/ ApplyNormalizeParagraphs
SpecFn == InitFn /\ [][NextFn]_vars

-----------------------------------------------------------------------------
(* app/batching.py: make_ranges, one iteration of its loop at a time *)

\* page_start, page_end and batch_size are plain ints of ExtractRequest: nothing
\* keeps them positive.  process_pdf_job batches only when page_end is truthy.
MaxPage == 4
MaxBatch == 3
MaxBelow == 1              \* how far below zero the drawn ints go
PageStarts == (0 - MaxBelow)..MaxPage
PageEnds   == ((0 - MaxBelow)..MaxPage) \ {0}
BatchSizes == (0 - MaxBelow)..MaxBatch

\* The ints of Python have no bound.  The model keeps the first MaxRanges ranges
\* (no call over these pages that returns makes as many), follows p down to
\* PFloor, which lies below every end and is not reached before the list is
\* full, and counts the iterations modulo 2.
MaxRanges == MaxPage + MaxBelow + 2
PFloor == 0 - MaxBelow - MaxRanges * MaxBelow - 1

Min(a, b) == IF a <= b THEN a ELSE b
Max(a, b) == IF a >= b THEN a ELSE b

JobsParked ==
    JOBS = {} /\ job = <<>> /\ task = <<>> /\ clock = 0 /\ polled = None

InitRanges ==
    /\ \E start \in PageStarts, end \in PageEnds, size \in BatchSizes :
          frame = [start |-> start, end |-> end, size |-> size,
                   ranges |-> <<>>, p |-> start, laps |-> 0, returned |-> FALSE]
    /\ JobsParked /\ SvcIdle /\ RtrIdle /\ FnIdle

\* the body of `while p <= end`
RangesIterate ==
    /\ ~frame.returned /\ frame.p <= frame.end
    /\ LET q == Min(frame.p + frame.size - 1, frame.end)
       IN  frame' = [frame EXCEPT !.ranges = IF Len(@) < MaxRanges
                                             THEN Append(@, <<frame.p, q>>) ELSE @,
                                  !.p = Max(q + 1, PFloor),
                                  !.laps = 1 - @]
    /\ UNCHANGED <<JOBS, job, task, clock, polled, svcVars, rtrVars, fnVars>>

\* the loop test fails: return ranges
RangesReturn ==
    /\ ~frame.returned /\ ~(frame.p <= frame.end)
    /\ frame' = [frame EXCEPT !.returned = TRUE]
    /\ UNCHANGED <<JOBS, job, task, clock, polled, svcVars, rtrVars, fnVars>>

NextRanges == RangesIterate \/ RangesReturn
SpecRanges == InitRanges /\ [][NextRanges]_vars
\* the interpreter keeps running the loop
SpecRangesFair == SpecRanges /\ WF_vars(NextRanges)

-----------------------------------------------------------------------------
(* app/main.py: the asynchronous PDF jobs.  The handlers are coroutines of one
   event loop: each action is the code between two awaits. *)

PENDING    == "pending"
PROCESSING == "processing"
COMPLETED  == "completed"
FAILED     == "failed"

JOB_MAX_AGE     == 3600      \* cleanup_old_jobs: older than 1 hour
SECONDS_PER_DAY == 86400     \* timedelta.seconds is the part below one day

MaxJobs     == 2
MaxTicks    == 3
TickSeconds == 1900          \* the clock advances this much at a time

JobIds == 1..MaxJobs
FileUrls == {None, Str(<<>>), Str(<<W(5)>>)}

InitJob ==
    /\ JOBS = {} /\ job = <<>> /\ task = <<>> /\ clock = 0 /\ polled = None
    /\ frame = None
    /\ SvcIdle /\ RtrIdle /\ FnIdle

\* POST /convert/async: a request without file_url is refused, otherwise the job
\* is stored and process_pdf_job is queued
start_conversion ==
    \E file_url \in FileUrls :
        /\ Truthy(file_url)
        /\ Len(job) < MaxJobs
        /\ LET job_id == Len(job) + 1
           IN  /\ job' = Append(job, [id |-> job_id, status |-> PENDING,
                                      created_at |-> clock, progress |-> 0,
                                      result |-> None, error |-> None])
               /\ JOBS' = JOBS \cup {job_id}
               /\ task' = Append(task, [pc |-> "queued", brand_voice |-> "none"])
        /\ UNCHANGED <<clock, polled, frame, svcVars, rtrVars, fnVars>>

\* GET /convert/status/{job_id}
get_job_status ==
    \E job_id \in JobIds :
        /\ polled' =
              IF job_id \notin JOBS
              THEN [code |-> 404]
              ELSE [code |-> 200, status |-> job[job_id].status,
                    progress |-> job[job_id].progress,
                    result |-> IF job[job_id].status = COMPLETED
                               THEN job[job_id].result ELSE Missing,
                    error |-> IF job[job_id].status = FAILED
                              THEN job[job_id].error ELSE Missing]
        /\ UNCHANGED <<JOBS, job, task, clock, frame, svcVars, rtrVars, fnVars>>

\* the handler `except Exception as e` of process_pdf_job
JobFails(job_id, message, pc_after) ==
    /\ job' = [job EXCEPT ![job_id].status = FAILED, ![job_id].error = Str(message)]
    /\ task' = [task EXCEPT ![job_id].pc = pc_after]

\* process_pdf_job up to `await fetch_to_tmp`: JOBS[job_id] raises KeyError when
\* the job is gone, outside the try
JobBegin ==
    \E job_id \in DOMAIN job :
        /\ task[job_id].pc = "queued"
        /\ IF job_id \notin JOBS
           THEN /\ task' = [task EXCEPT ![job_id].pc = "crashed"]
                /\ UNCHANGED job
           ELSE /\ job' = [job EXCEPT ![job_id].status = PROCESSING,
                                      ![job_id].progress = 5]
                /\ task' = [task EXCEPT ![job_id].pc = "downloading"]
        /\ UNCHANGED <<JOBS, clock, polled, frame, svcVars, rtrVars, fnVars>>

\* from the return of fetch_to_tmp to `await call_brand_voice`
JobExtract ==
    \E job_id \in DOMAIN job,
       outcome \in {"fetch raises", "convert raises", "nothing extracted", "extracted"} :
        /\ task[job_id].pc = "downloading"
        /\ CASE outcome = "fetch raises" -> JobFails(job_id, outcome, "done")
             [] outcome = "convert raises" ->
                    /\ job' = [job EXCEPT ![job_id].status = FAILED,
                                          ![job_id].progress = 20,
                                          ![job_id].error = Str(outcome)]
                    /\ task' = [task EXCEPT ![job_id].pc = "done"]
             [] outcome = "nothing extracted" ->     \* inferred is None: .get raises
                    /\ job' = [job EXCEPT ![job_id].status = FAILED,
                                          ![job_id].progress = 80,
                                          ![job_id].error = Str(outcome)]
                    /\ task' = [task EXCEPT ![job_id].pc = "done"]
             [] outcome = "extracted" ->
                    /\ job' = [job EXCEPT ![job_id].progress = 90]
                    /\ task' = [task EXCEPT ![job_id].pc = "brand_voice"]
        /\ UNCHANGED <<JOBS, clock, polled, frame, svcVars, rtrVars, fnVars>>

\* JobFinish without the inner try around call_brand_voice: its exception reaches
\* the outer handler
JobFinishUncaught ==
    \E job_id \in DOMAIN job, brand_voice \in {"returned", "raised"} :
        /\ task[job_id].pc = "brand_voice"
        /\ IF brand_voice = "raised"
           THEN /\ job' = [job EXCEPT ![job_id].status = FAILED,
                                      ![job_id].error = Str("brand voice failed")]
                /\ task' = [task EXCEPT ![job_id].pc = "done",
                                        ![job_id].brand_voice = brand_voice]
           ELSE /\ job' = [job EXCEPT ![job_id].status = COMPLETED,
                                      ![job_id].progress = 100,
                                      ![job_id].result =
                                          [success |-> TRUE,
                                           products |-> "enhanced_products"]]
                /\ task' = [task EXCEPT ![job_id].pc = "done",
                                        ![job_id].brand_voice = brand_voice]
        /\ UNCHANGED <<JOBS, clock, polled, frame, svcVars, rtrVars, fnVars>>

\* from the return of call_brand_voice to the end: a failure of the call is
\* caught and the product is kept as extracted
JobFinish ==
    \E job_id \in DOMAIN job, brand_voice \in {"returned", "raised"} :
        /\ task[job_id].pc = "brand_voice"
        /\ job' = [job EXCEPT ![job_id].status = COMPLETED,
                              ![job_id].progress = 100,
                              ![job_id].result =
                                  [success |-> TRUE,
                                   products |-> IF brand_voice = "returned"
                                                THEN "enhanced_products"
                                                ELSE "[product]"]]
        /\ task' = [task EXCEPT ![job_id].pc = "done",
                                ![job_id].brand_voice = brand_voice]
        /\ UNCHANGED <<JOBS, clock, polled, frame, svcVars, rtrVars, fnVars>>

\* (now - job['created_at']).seconds
AgeSeconds(job_id) == (clock - job[job_id].created_at) % SECONDS_PER_DAY

\* one round of the loop of cleanup_old_jobs
cleanup_old_jobs ==
    /\ LET to_remove == {job_id \in JOBS : AgeSeconds(job_id) > JOB_MAX_AGE}
       IN  JOBS' = JOBS \ to_remove
    /\ UNCHANGED <<job, task, clock, polled, frame, svcVars, rtrVars, fnVars>>

\* time passes
JobTick ==
    /\ clock < MaxTicks * TickSeconds
    /\ clock' = clock + TickSeconds
    /\ UNCHANGED <<JOBS, job, task, polled, frame, svcVars, rtrVars, fnVars>>

NextJob == start_conversion \/ get_job_status \/ JobBegin \/ JobExtract
           \/ JobFinish \/ cleanup_old_jobs \/ JobTick
SpecJob == InitJob /\ [][NextJob]_vars

-----------------------------------------------------------------------------
(* Properties of the retry loop *)

InRetryLoop == pc \in {"attempt", "sleep"}
AllFailed(n) == \A i \in 1..n : calls[i].failed

C3_Inv ==
    /\ Len(calls) <= 3
    /\ \A i \in DOMAIN calls : calls[i].attempt = i
    /\ AllFailed(Len(calls) - 1)
    /\ pc = "attempt" => attempt \in 1..3 /\ Len(calls) = attempt - 1
    /\ pc = "sleep" => attempt \in 1..2 /\ Len(calls) = attempt /\ AllFailed(attempt)
    /\ (~InRetryLoop /\ calls /= <<>>) =>
          IF calls[Len(calls)].failed
          THEN Len(calls) = 3 /\ raised /= None /\ raised.cause = last_cause
               /\ last_cause /= None
          ELSE raised = None

\* what is left of the retry loop: attempts, then seconds of the pending sleep
C3_Left == IF InRetryLoop
           THEN (3 - attempt) * 100 + (IF pc = "sleep" THEN wake_at + MaxLate + 1 - now ELSE 50)
           ELSE 0
C3_Decrease == InRetryLoop => (C3_Left' < C3_Left /\ C3_Left' >= 0)

\* C3: for every product generate_single_product makes at most 3 calls to the
\* external generator and always terminates: it returns after the first attempt
\* that succeeds, and after the third failed attempt it raises an error that
\* carries the cause of that last failure; there is no fourth attempt.
C3_BoundedRetries == [](C3_Inv) /\ [][C3_Decrease]_vars

C3_Witness == pc = "loop" /\ Len(calls) = 3 /\ calls[3].failed /\ raised /= None

\* C4: after the failed attempt k (k = 1, 2) the client waits 2^k seconds (2 s,
\* then 4 s) before attempt k+1 starts, and there is no wait after an attempt
\* that succeeded nor after the failure of the third attempt.
C4_Backoff ==
    /\ Len(sleeps) <= 2
    /\ \A i \in DOMAIN sleeps :
          sleeps[i].after = i /\ sleeps[i].secs = 2 ^ i /\ calls[i].failed
    /\ \A i \in 2..Len(calls) : calls[i].at >= calls[i - 1].at + 2 ^ (i - 1)
    /\ pc = "attempt" => Len(sleeps) = attempt - 1
    /\ pc = "sleep" => Len(sleeps) = Len(calls)
    /\ (~InRetryLoop /\ calls /= <<>>) => Len(sleeps) = Len(calls) - 1

C4_Witness == pc = "attempt" /\ attempt = 3 /\ Len(sleeps) = 2 /\ now >= 6

-----------------------------------------------------------------------------
(* Properties of the two orchestrators *)

HasErrorMarker(product) == product["_generation_error"] /= Missing
BundleOf(product) == product["descriptions"].v

\* C1: when external generation fails for a product (no client, retries
\* exhausted, malformed output), the orchestrator attaches a locally generated
\* bundle: no product of services.brand_voice.generate carries the error
\* placeholder bundle or the generation-failed marker, and no product of the
\* endpoint loop carries the endpoint's placeholder bundle.
C1_FailureRecoveredLocally ==
    /\ \A i \in DOMAIN enhanced_products :
          /\ ~HasErrorMarker(enhanced_products[i])
          /\ BundleOf(enhanced_products[i]) /= ErrorBundle
    /\ \A i \in DOMAIN processed_products :
          processed_products[i].descriptions /= PlaceholderBundle

\* C2: a failure on one product never aborts a batch: when the batch operation
\* is over there is exactly one output entry per input product, in input order.
C2_OneOutputPerProduct ==
    /\ pc = "done" =>
          /\ Len(enhanced_products) = Len(products)
          /\ \A i \in DOMAIN products : enhanced_products[i]["name"] = products[i]["name"]
    /\ (rpc = "done" /\ products_to_process /= <<>>) =>
          /\ http_status = 200
          /\ Len(processed_products) = Len(products_to_process)
          /\ \A i \in DOMAIN processed_products :
                processed_products[i].name = products_to_process[i]["name"]

NonEmpty(x) == x.t = "str" /\ x.v /= <<>>

\* C5: a product never carries a partial bundle: its three descriptions are all
\* non-empty, or it carries the generation-failed marker.
C5_NoPartialBundle ==
    /\ \A i \in DOMAIN enhanced_products :
          \/ HasErrorMarker(enhanced_products[i])
          \/ /\ NonEmpty(BundleOf(enhanced_products[i]).shortDescription)
             /\ NonEmpty(BundleOf(enhanced_products[i]).metaDescription)
             /\ NonEmpty(BundleOf(enhanced_products[i]).longDescription)
    /\ \A i \in DOMAIN processed_products :
          /\ NonEmpty(processed_products[i].descriptions.shortDescription)
          /\ NonEmpty(processed_products[i].descriptions.metaDescription)
          /\ NonEmpty(processed_products[i].descriptions.longDescription)

WithinLimits(bundle) ==
    /\ bundle.shortDescription.t = "str" => len(bundle.shortDescription.v) <= 150
    /\ bundle.longDescription.t = "str" => len(bundle.longDescription.v) <= 2000

\* C6: an attached shortDescription has at most 150 characters and an attached
\* longDescription at most 2000, in the services pipeline and in the endpoint.
C6_AttachedWithinLimits ==
    /\ \A i \in DOMAIN enhanced_products : WithinLimits(BundleOf(enhanced_products[i]))
    /\ \A i \in DOMAIN processed_products : WithinLimits(processed_products[i].descriptions)

\* C9: every request sent to the external generator holds only specification
\* keys of the allow-list of the product's category, in generate_single_product
\* (the prompt of each call) and in generate_with_openai (the product sent).
C9_OnlyAllowedSpecsSent ==
    /\ \A i \in DOMAIN calls :
          calls[i].prompt.specifications /= Missing =>
             DOMAIN calls[i].prompt.specifications.v \subseteq
                (IF category.v \in DOMAIN ALLOWED_SPECS
                 THEN ALLOWED_SPECS[category.v] ELSE ALLOWED_SPECS[cGeneral])
    /\ \A i \in DOMAIN sent :
          sent[i]["specifications"].t = "dict" =>
             \A k \in DOMAIN sent[i]["specifications"].v : spec_allowed(sent[i]["category"], k)

-----------------------------------------------------------------------------
(* Properties of the coercers and the parsers *)

Applied(f) == fn = f /\ out /= NoOut

\* the fragments of a short block: the text between <p> and </p>, split at <br>
Fragments(s) == SplitAt(SubSeq(s, 2, Len(s) - 1), "br")

\* one <p>..</p> block, two <br>, three fragments of 2 to 8 words, no final period
ShortWellFormed(s) ==
    /\ Len(s) >= 2 /\ s[1].k = "p" /\ s[Len(s)].k = "/p"
    /\ Count(s, "p") = 1 /\ Count(s, "/p") = 1
    /\ Count(s, "br") = 2 /\ Count(s, "br/") = 0
    /\ \A i \in DOMAIN Fragments(s) :
          /\ Len(Words(Fragments(s)[i])) \in 2..8
          /\ ~EndsWithDot(Fragments(s)[i])

\* C7: for every input text the result of coerce_short_html is one <p>..</p>
\* block with exactly two <br> and three fragments, each of 2 to 8 words and
\* none ending in a period.
C7_ShortWellFormed ==
    Applied("coerce_short_html") => ShortWellFormed(out.v)

\* the first paragraph of a long block, <<>> when it has none
FirstParagraph(s) ==
    LET i == FirstAfter(s, "p", 0)
        j == IF i = 0 THEN 0 ELSE FirstAfter(s, "/p", i)
    IN  IF j = 0 THEN <<>> ELSE SubSeq(s, i + 1, j - 1)

InWindow(s) == len(FirstParagraph(s)) \in 150..160

\* C8: after coerce_long_html the first paragraph has 150 to 160 characters,
\* and so has the first paragraph the fallback generator builds.
C8_MetaInWindow ==
    /\ Applied("coerce_long_html") => InWindow(out.v)
    /\ (Applied("generate_fallback_descriptions") /\ out.ok) => InWindow(out.v.long_html.v)

\* the payload of a raw response once an opening fence (with its tag, if any)
\* and a closing fence are stripped
PayloadOf(raw) ==
    LET a == IF raw /= <<>> /\ raw[1].k = "fence"
             THEN (IF Len(raw) >= 2 /\ raw[2].k \in {"json", "JSON"}
                   THEN SubSeq(raw, 3, Len(raw)) ELSE Tail(raw))
             ELSE raw
        b == IF a /= <<>> /\ a[Len(a)].k = "fence" THEN SubSeq(a, 1, Len(a) - 1) ELSE a
        c == Strip(b)
    IN  IF Len(c) = 1 /\ c[1].k = "body" THEN c[1].v ELSE Invalid

\* a JSON object whose short_html and long_html are non-empty strings
IsBundleObject(v) ==
    /\ v.t = "dict"
    /\ v.v.short_html /= Missing /\ NonEmpty(v.v.short_html)
    /\ v.v.long_html /= Missing /\ NonEmpty(v.v.long_html)

IsParser(f) == f \in {"parse_openai_response", "parse_json_from_model"}

\* C10: parsing a raw response succeeds exactly when its payload, fences
\* stripped, is a JSON object with non-empty string short_html and long_html,
\* and a fenced response parses to what its payload parses to unfenced.
C10_ParseExactly ==
    (IsParser(fn) /\ out /= NoOut) =>
        /\ out.ok <=> IsBundleObject(PayloadOf(arg))
        /\ out = (IF fn = "parse_openai_response"
                  THEN parse_openai_response(<<BODY(PayloadOf(arg))>>)
                  ELSE parse_json_from_model(Str(<<BODY(PayloadOf(arg))>>)))


-----------------------------------------------------------------------------
(* category policy lookup *)

\* the text of a category value without the blanks around it
CatText(cat) ==
    IF ~Truthy(cat) THEN <<>> ELSE CStrip(IF cat.t = "str" THEN cat.v ELSE <<"5">>)

\* the categories of a set of names that a text names, whatever its letter case
NamedBy(cat, names) == {c \in names : Lower(c) = Lower(CatText(cat))}

\* the categories whose synonym occurs in a text, whatever its letter case
SynonymsIn(cat) ==
    {synonyms[i][2] : i \in {j \in DOMAIN synonyms :
                                Contains(Lower(CatText(cat)), synonyms[j][1])}}

\* a category that is no key of an allow-list table
UnknownTo(table, cat) == cat.t /= "str" \/ cat.v \notin DOMAIN table

\* C11: for every category value normalise_category returns an allowed category,
\* the fallback when nothing matches; spec_allowed and filter_specifications
\* return without raising and use the General allow-list for an unknown category.
C11_PolicyLookupTotal ==
    /\ Applied("normalise_category") =>
          /\ out.ok /\ out.v.t = "str" /\ out.v.v \in ALLOWED_CATEGORIES
          /\ (NamedBy(arg.cat, ALLOWED_CATEGORIES) = {} /\ SynonymsIn(arg.cat) = {})
                => out.v = arg.fallback
    /\ Applied("spec_allowed") =>
          /\ out.ok /\ out.v.t = "bool"
          /\ UnknownTo(ALLOWED_SPECS_BY_CATEGORY, arg.cat)
                => (out.v.v <=> arg.key \in ALLOWED_SPECS_BY_CATEGORY[cGeneral])
    /\ Applied("filter_specifications") =>
          /\ out.ok /\ out.v.t = "dict"
          /\ UnknownTo(ALLOWED_SPECS, arg.cat)
                => DOMAIN out.v.v = DOMAIN arg.specs.v \cap ALLOWED_SPECS[cGeneral]

C11_Witness ==
    /\ Applied("normalise_category")
    /\ arg.cat = Str(<<"g", "a", "r", "d", "e", "n">>) /\ arg.fallback = Str(cGeneral)
    /\ out = Ok(Str(cGeneral))

\* the allow-list a category text stands for: that of the category it names,
\* else that of a category whose synonym it contains
PoliciesOf(cat) ==
    IF NamedBy(cat, DOMAIN ALLOWED_SPECS) /= {} THEN NamedBy(cat, DOMAIN ALLOWED_SPECS)
    ELSE SynonymsIn(cat)

\* C12: the category chosen does not depend on the letter case of the input: a
\* canonical name in any case resolves to that category, a text containing a
\* synonym to the synonym's category, also for the allow-list that
\* filter_specifications uses.
C12_CaseInsensitiveLookup ==
    /\ (Applied("normalise_category") /\ NamedBy(arg.cat, ALLOWED_CATEGORIES) /= {})
          => out.v.v \in NamedBy(arg.cat, ALLOWED_CATEGORIES)
    /\ (Applied("normalise_category") /\ NamedBy(arg.cat, ALLOWED_CATEGORIES) = {}
          /\ SynonymsIn(arg.cat) /= {})
          => out.v.v \in SynonymsIn(arg.cat)
    /\ (Applied("filter_specifications") /\ out.ok /\ PoliciesOf(arg.cat) /= {})
          => \E c \in PoliciesOf(arg.cat) :
                 DOMAIN out.v.v = DOMAIN arg.specs.v \cap ALLOWED_SPECS[c]

-----------------------------------------------------------------------------
(* the fallback generator *)

RECURSIVE ParagraphsFrom(_, _)
\* the paragraphs of a block that start after position i
ParagraphsFrom(s, i) ==
    LET a == FirstAfter(s, "p", i)
        b == IF a = 0 THEN 0 ELSE FirstAfter(s, "/p", a)
    IN  IF b = 0 THEN <<>> ELSE <<SubSeq(s, a + 1, b - 1)>> \o ParagraphsFrom(s, b)

\* the specification paragraphs of a fallback long block: those after the meta
\* description and the designed-for-everyday-use paragraph
SpecParagraphs(s) == SubSeq(ParagraphsFrom(s, 0), 3, Len(ParagraphsFrom(s, 0)))

\* the specification a paragraph prints, read from its label or its text
LineKey(q) ==
    CASE Len(q) >= 2 /\ q[2].k = "x" /\ q[1] = W(6)  -> "weight"
      [] Len(q) >= 2 /\ q[2].k = "x" /\ q[1] = W(8)  -> "capacity"
      [] Len(q) >= 2 /\ q[2].k = "x" /\ q[1] = W(10) -> "dimensions"
      [] Len(q) >= 2 /\ q[2].k = "x" /\ q[1] = W(5)  -> "powerW"
      [] q = MadeInUK                                -> "origin"
      [] \E i \in DOMAIN q : q[i].k = "dig"          -> "guarantee"
      [] OTHER                                       -> "care"

\* the product has data for a specification line
HasData(product, key) ==
    CASE key \in {"weight", "capacity", "dimensions", "powerW"} ->
            /\ product["specifications"].t = "dict"
            /\ key \in DOMAIN product["specifications"].v
            /\ Truthy(product["specifications"].v[key])
      [] key = "origin" ->
            (product["madeIn"] /= Missing /\ Truthy(product["madeIn"]))
            \/ (product["origin"] /= Missing /\ Truthy(product["origin"]))
      [] key = "guarantee" ->
            \/ product["isNonStick"] = Bool(TRUE)
            \/ (product["guarantee"] /= Missing /\ Truthy(product["guarantee"]))
            \/ (product["warranty"] /= Missing /\ Truthy(product["warranty"]))
      [] OTHER -> product["care"] /= Missing /\ Truthy(product["care"])

\* C13: a specification paragraph of the fallback long block is there only if
\* the product has the data and the key is in the allow-list of the category.
C13_SpecLinesGated ==
    (Applied("generate_fallback_descriptions") /\ out.ok) =>
        \A i \in DOMAIN SpecParagraphs(out.v.long_html.v) :
            LET key == LineKey(SpecParagraphs(out.v.long_html.v)[i])
            IN  /\ HasData(arg.product, key)
                /\ key \in ALLOWED_SPECS_BY_CATEGORY[arg.category.v]

C13_Witness ==
    /\ Applied("generate_fallback_descriptions") /\ out.ok
    /\ arg.product = prodScales /\ arg.category = Str(cClothing)
    /\ Len(SpecParagraphs(out.v.long_html.v)) = 4

\* the guarantee or, without one, the warranty text of an item; None without both
GuaranteeText(item) ==
    IF Truthy(item["guarantee"]) THEN item["guarantee"]
    ELSE IF Truthy(item["warranty"]) THEN item["warranty"] ELSE None

\* s without the periods at its end
WithoutFinalDots(s) == DropTrailing(s, {"dot"})

\* s ends in one period and no more
EndsInOnePeriod(s) == s /= <<>> /\ s[Len(s)] = DOT

\* the fallback prints the fixed sentence for a non-stick item wherever the
\* category allows a guarantee line
NonStickLinePrinted ==
    (/\ Applied("generate_fallback_descriptions") /\ out.ok
     /\ arg.product["isNonStick"] = Bool(TRUE)
     /\ "guarantee" \in ALLOWED_SPECS_BY_CATEGORY[arg.category.v])
    => \E i \in DOMAIN SpecParagraphs(out.v.long_html.v) :
          SpecParagraphs(out.v.long_html.v)[i] = TenYearGuarantee

OriginText(item) ==
    IF item["madeIn"] /= Missing /\ Truthy(item["madeIn"]) THEN item["madeIn"].v
    ELSE IF item["origin"] /= Missing /\ Truthy(item["origin"]) THEN item["origin"].v
    ELSE <<>>

\* countries that are not the United Kingdom
OtherCountries ==
    {<<"U", "K", "R", "A", "I", "N", "E">>, <<"F", "R", "A", "N", "C", "E">>,
     <<"C", "H", "I", "N", "A">>}

\* C15: for an origin text that names another country, or is empty,
\* made_in_line returns no line.
C15_OriginOnlyUK ==
    (Applied("made_in_line")
       /\ Upper(CStrip(OriginText(arg))) \in OtherCountries \cup {<<>>})
    => out.v = None

\* C16: generate_fallback_descriptions never raises and returns a non-empty
\* short block and a non-empty long block for every product and category.
C16_FallbackAlwaysSucceeds ==
    Applied("generate_fallback_descriptions") =>
        /\ out.ok
        /\ out.v.short_html.t = "str" /\ out.v.short_html.v /= <<>>
        /\ out.v.long_html.t = "str" /\ out.v.long_html.v /= <<>>

\* C17: the fixed text returned by validate_and_fix_meta is never longer
\* than the maximum of 160 characters, whatever the meta and the keywords.
C17_FixedWithinMax ==
    Applied("validate_and_fix_meta") => len(out.v.fixed) <= SEO_META_MAX_LENGTH

\* a call with a meta under the minimum and keywords that are all allowed,
\* absent from the meta, and short enough to be appended within the maximum
ShortMetaWithKeywords ==
    /\ fn = "validate_and_fix_meta"
    /\ len(Strip(arg.meta_description)) < SEO_META_MIN_LENGTH
    /\ arg.keywords /= <<>>
    /\ \A i \in DOMAIN arg.keywords :
          /\ NotBanned(arg.keywords[i])
          /\ ~Occurs(arg.keywords[i], arg.meta_description)
          /\ len(Strip(arg.meta_description)) + 6 + len(arg.keywords[i]) + 1
                <= SEO_META_MAX_LENGTH

\* C18: for a meta under 150 characters with allowed, absent keywords that
\* fit, the fixed text has 150 to 160 characters and contains a keyword.
C18_ShortMetaPadded ==
    (Applied("validate_and_fix_meta") /\ ShortMetaWithKeywords) =>
        /\ len(out.v.fixed) >= SEO_META_MIN_LENGTH
        /\ len(out.v.fixed) <= SEO_META_MAX_LENGTH
        /\ \E i \in DOMAIN arg.keywords : Occurs(arg.keywords[i], out.v.fixed)

\* C19: the fixed text returned by validate_and_fix_meta ends with exactly
\* one period: not an ellipsis, and not another punctuation mark.
C19_OneTerminalPeriod ==
    Applied("validate_and_fix_meta") => EndsInOnePeriod(out.v.fixed)

\* s holds a forbidden phrase: its words in any case, as whole words, with
\* blanks, &nbsp; or tags between them
MentionsForbidden(s) ==
    \E f \in DOMAIN FORBIDDEN_PHRASES, i \in DOMAIN s : PhraseAt(s, i, FORBIDDEN_PHRASES[f]) > 0

\* a mark of the class [.,;:] with no word before it: at the start of the
\* text or after a blank
OrphanedPunct(s) ==
    /\ s /= <<>>
    /\ \/ IsPunct(s[1])
       \/ \E i \in 1..(Len(s) - 1) : IsSpace(s[i]) /\ IsPunct(s[i + 1])

\* C20: the output of strip_forbidden_phrases holds no forbidden phrase, in
\* any case and with blanks or inline markup between its words, and no
\* punctuation mark orphaned by the removal.
C20_NoForbiddenPhraseLeft ==
    (Applied("strip_forbidden_phrases") /\ ~OrphanedPunct(arg)) =>
        /\ ~MentionsForbidden(out.v.v)
        /\ ~OrphanedPunct(out.v.v)

\* C21: sanitizing is idempotent: a field that sanitize_descriptions has
\* sanitized is returned unchanged by a second pass.
C21_SanitizeIdempotent ==
    Applied("sanitize_descriptions") => SanitizeField(out.v) = out

\* C22: normalize_paragraphs is stable under re-application: normalizing its
\* own result in the same style returns that result.
C22_NormalizeStable ==
    Applied("normalize_paragraphs") =>
        normalize_paragraphs(out.v.v, arg.prefer_p_tags) = out.v.v

-----------------------------------------------------------------------------
(* retail terms in the long block *)

\* s names a banned retail term as a whole word
NamesRetailTerm(s) ==
    \E i \in DOMAIN s :
        /\ s[i].k \in BannedTerms
        /\ (i = 1 \/ ~EndsWord(s[i - 1]))
        /\ (i = Len(s) \/ ~StartsWord(s[i + 1]))

\* the paragraphs of a long block after its first one
LaterParagraphs(s) == Tail(ParagraphsFrom(s, 0))

\* C23: after coerce_long_html the first paragraph names no banned retail
\* term as a whole word, and the paragraphs after the first are those of
\* the input, retail terms included.
C23_RetailTermsOnlyInMeta ==
    (Applied("coerce_long_html") /\ ParagraphsFrom(arg.long_html, 0) /= <<>>) =>
        /\ ~NamesRetailTerm(FirstParagraph(out.v))
        /\ LaterParagraphs(out.v) = LaterParagraphs(arg.long_html)

-----------------------------------------------------------------------------
(* what the generation client counts as a failed attempt *)

\* the failures of the transport: a provider error, a timeout, an empty response
TransportFailures ==
    {Exc("APIError"), Exc("APITimeoutError"), Exc("OpenAI returned empty response")}

\* C24: an attempt of generate_single_product fails, and is retried, only for
\* a provider error, a timeout or an empty response: an attempt that returned
\* a non-empty response is a success whatever the response holds.
C24_TransportOutcomeOnly ==
    (calls /= <<>> /\ calls[Len(calls)].failed) => last_cause \in TransportFailures

-----------------------------------------------------------------------------
(* the caller's product *)

\* two values of a product key are the same value
SameValue(a, b) == a.t = b.t /\ a = b

\* C25: the product is an immutable input of generate_single_product: no
\* step changes the specifications of a product of the caller's list, whether
\* the attempts succeed, fail or time out.
C25_SpecificationsUnchanged ==
    [][\A i \in DOMAIN products :
          SameValue(products'[i]["specifications"], products[i]["specifications"])]_vars

-----------------------------------------------------------------------------
(* the clamp of the long block *)

\* the meta paragraph the fallback generator writes for a product
FallbackMeta(product) ==
    clean_meta_description(
        finish_meta_single_sentence(DefaultMeta(TextOf(Get(product, "name", Str(<<W(7)>>))))),
        160)

\* the lifestyle paragraph of a fallback long block is there, cut or not
LifestyleLeft(s) ==
    \E i \in DOMAIN s, j \in DOMAIN s : i < j /\ s[i].k = "/p" /\ s[j].k \in WordKinds

\* C26: when the fallback long block is clamped, the meta paragraph is whole
\* and, as long as lifestyle prose is left, every technical line the
\* generator wrote is there in full.
C26_ClampSparesTechnicalLines ==
    (Applied("generate_fallback_descriptions") /\ out.ok) =>
        /\ FirstParagraph(out.v.long_html.v) = FallbackMeta(arg.product)
        /\ LifestyleLeft(out.v.long_html.v) =>
              SpecParagraphs(out.v.long_html.v)
                = ParagraphsFrom(TechSpecs(arg.product, arg.category,
                                           Get(arg.product, "specifications", Dict(<<>>))), 0)

-----------------------------------------------------------------------------
(* the rebuilt short block *)

\* the non-empty fragments found in a rejected short block
PoolOf(short_html) ==
    SelectSeq([i \in DOMAIN SplitAt(PlainOf(Strip(short_html)), "bul") |->
                  Strip(SplitAt(PlainOf(Strip(short_html)), "bul")[i])],
              LAMBDA x : x /= <<>>)

\* C27: a rebuilt short block keeps the fragments of the input: when the
\* input yields fewer than three non-empty fragments, each of them is in the
\* rebuilt block at its position, and generic fragments fill the rest.
C27_RebuildKeepsFragments ==
    (Applied("coerce_short_html") /\ Len(PoolOf(arg)) < 3) =>
        /\ Len(Fragments(out.v)) = 3
        /\ \A i \in DOMAIN PoolOf(arg) : Fragments(out.v)[i] = Tidy(PoolOf(arg)[i])

-----------------------------------------------------------------------------
(* the keywords the validator adds *)

\* the keywords of the call that the fixed text holds and the meta did not
AddedKeywords ==
    {arg.keywords[i] : i \in {j \in DOMAIN arg.keywords :
                                 /\ ~Occurs(arg.keywords[j], arg.meta_description)
                                 /\ Occurs(arg.keywords[j], out.v.fixed)}}

\* C28: validate_and_fix_meta adds at most two keywords to the meta, and
\* never a keyword of the banned set.
C28_AddedKeywordsAllowed ==
    Applied("validate_and_fix_meta") =>
        /\ Cardinality(AddedKeywords) <= 2
        /\ \A kw \in AddedKeywords : NotBanned(kw)


-----------------------------------------------------------------------------
(* make_ranges *)

Pages(r) == r[1]..r[2]
ExactCover(f) ==
    /\ \A i \in DOMAIN f.ranges :
          /\ f.ranges[i][1] <= f.ranges[i][2]
          /\ f.ranges[i][2] - f.ranges[i][1] + 1 <= f.size
          /\ i > 1 => f.ranges[i][1] = f.ranges[i - 1][2] + 1
    /\ UNION {Pages(f.ranges[i]) : i \in DOMAIN f.ranges} = f.start..f.end

\* C30: make_ranges returns for every start, end and size a request can carry,
\* and what it returns is consecutive, non-overlapping ranges of at most `size`
\* pages that cover exactly start..end (no range when start > end)
C30_MakeRangesTerminates ==
    /\ <>(frame.returned)
    /\ [](frame.returned => ExactCover(frame))

-----------------------------------------------------------------------------
(* The asynchronous PDF jobs *)

\* what holds of every job dict and of every answer of get_job_status
JobSound ==
    /\ \A job_id \in DOMAIN job :
          /\ job[job_id].result /= None => job[job_id].status = COMPLETED
          /\ job[job_id].error /= None => job[job_id].status = FAILED
          /\ task[job_id].brand_voice = "raised" =>
                /\ job[job_id].status = COMPLETED
                /\ job[job_id].result.products = "[product]"
    /\ (polled /= None /\ polled.code = 200) =>
          /\ polled.result /= Missing => polled.status = COMPLETED
          /\ polled.error /= Missing => polled.status = FAILED

\* the moves a job's status makes in one step
JobMoves ==
    \A job_id \in DOMAIN job :
        \/ job'[job_id].status = job[job_id].status
        \/ job[job_id].status = PENDING /\ job'[job_id].status = PROCESSING
        \/ job[job_id].status = PROCESSING /\ job'[job_id].status \in {COMPLETED, FAILED}

\* C29: under every interleaving of start_conversion, process_pdf_job,
\* get_job_status and cleanup_old_jobs a job's status only moves PENDING ->
\* PROCESSING -> COMPLETED or FAILED, never back and never out of COMPLETED or
\* FAILED; result is set only on a COMPLETED job and error only on a FAILED one
\* (in the dict and in the answers of get_job_status); and a job whose
\* brand-voice call raised is COMPLETED with the product as extracted
C29_JobLifecycle == [](JobSound) /\ [][JobMoves]_vars

\* one job was completed although its brand-voice call raised and was polled,
\* another one failed and cleanup has dropped a job
C29_CompletedWithoutBrandVoice ==
    /\ \E job_id \in DOMAIN job :
          /\ task[job_id].brand_voice = "raised"
          /\ job[job_id].status = COMPLETED
    /\ \E job_id \in DOMAIN job : job[job_id].status = FAILED
    /\ \E job_id \in DOMAIN job : job_id \notin JOBS
    /\ polled /= None /\ polled.code = 200 /\ polled.status = COMPLETED
    /\ polled.result.products = "[product]"

====
